---- MODULE Spec2Model ----
(***************************************************************************)
(* Model of the NVRAM space manager (core/nvram_manager.cpp): the          *)
(* in-memory space table, the header and space blobs held by the storage   *)
(* layer, lazy initialization with recovery of the provisional index, and  *)
(* the request handlers GetInfo, CreateSpace, GetSpaceInfo, DisableCreate. *)
(*                                                                         *)
(* A uint32_t bit mask (space.controls) is modelled as the set of its set  *)
(* bit positions, a subset of 0..31.  Space contents are modelled as a     *)
(* record [size, byte]: `size` bytes, each equal to `byte`.                *)
(***************************************************************************)
EXTENDS Integers, Sequences, FiniteSets, TLC

(***************************************************************************)
(* Bounds of the model.                                                    *)
(***************************************************************************)
\* Space indices used by requests are 1..MaxIndex.
MaxIndex == 3
\* Capacity of the spaces_ array.  The source sets 32 (nvram_manager.h:100);
\* the model scales it down so that a full table is reached.
kMaxSpaces == 2

(***************************************************************************)
(* Program constants.                                                      *)
(***************************************************************************)
kMaxSpaceSize == 1024
kMaxAuthSize == 32
kVersion == 1
\* Width of the int that `1 << control` is computed in.
kShiftWidth == 32

NV_CONTROL_PERSISTENT_WRITE_LOCK == 0
NV_CONTROL_BOOT_WRITE_LOCK == 1
NV_CONTROL_BOOT_READ_LOCK == 2
NV_CONTROL_WRITE_AUTHORIZATION == 3
NV_CONTROL_READ_AUTHORIZATION == 4
NV_CONTROL_WRITE_EXTEND == 5

kSupportedControlsMask ==
  { NV_CONTROL_PERSISTENT_WRITE_LOCK, NV_CONTROL_BOOT_WRITE_LOCK,
    NV_CONTROL_BOOT_READ_LOCK, NV_CONTROL_WRITE_AUTHORIZATION,
    NV_CONTROL_READ_AUTHORIZATION, NV_CONTROL_WRITE_EXTEND }

Indices == 1..MaxIndex

(***************************************************************************)
(* State.                                                                  *)
(***************************************************************************)
VARIABLES
  initialized_,     \* NvramManager::initialized_
  disable_create_,  \* NvramManager::disable_create_
  spaces_,          \* NvramManager::spaces_[0 .. num_spaces_-1], as a sequence
  header,           \* the header slot of the storage layer
  space_blobs,      \* the space slots of the storage layer, by index
  shift_wraps,      \* how this build evaluates 1 << control for control >= 32
  profile,          \* what the run exercises: "faults" or "requests"
  last              \* the last request: what was asked, what was answered

vars == <<initialized_, disable_create_, spaces_, header, space_blobs,
          shift_wraps, profile, last>>

num_spaces_ == Len(spaces_)

(***************************************************************************)
(* Records.                                                                *)
(***************************************************************************)
\* Optional<uint32_t>
NoIndex == [valid |-> FALSE, value |-> 0]
SomeIndex(i) == [valid |-> TRUE, value |-> i]

\* No header in storage.
NoHeader ==
  [present |-> FALSE, version |-> 0, disable_create |-> FALSE,
   allocated_indices |-> <<>>, provisional_index |-> NoIndex]

\* No blob in a space slot.
NoSpace ==
  [present |-> FALSE, flags |-> {}, controls |-> {},
   authorization_value |-> <<>>, contents |-> [size |-> 0, byte |-> 0]]

SpaceListEntry(index) ==
  [index |-> index, write_locked |-> FALSE, read_locked |-> FALSE]

SeqRange(s) == { s[k] : k \in 1..Len(s) }

TableIndices(spaces) == [k \in 1..Len(spaces) |-> spaces[k].index]

\* The manager and the storage it runs over, as one value.
World ==
  [initialized |-> initialized_, disable_create |-> disable_create_,
   spaces |-> spaces_, header |-> header, space_blobs |-> space_blobs]

Call(fn, index, status) == [fn |-> fn, index |-> index, status |-> status]


(***************************************************************************)
(* Result codes.                                                           *)
(***************************************************************************)
NV_RESULT_SUCCESS == "NV_RESULT_SUCCESS"
NV_RESULT_INTERNAL_ERROR == "NV_RESULT_INTERNAL_ERROR"
NV_RESULT_INVALID_PARAMETER == "NV_RESULT_INVALID_PARAMETER"
NV_RESULT_SPACE_ALREADY_EXISTS == "NV_RESULT_SPACE_ALREADY_EXISTS"
NV_RESULT_SPACE_DOES_NOT_EXIST == "NV_RESULT_SPACE_DOES_NOT_EXIST"
NV_RESULT_OPERATION_DISABLED == "NV_RESULT_OPERATION_DISABLED"

kSuccess == "kSuccess"
kNotFound == "kNotFound"
kStorageError == "kStorageError"

(***************************************************************************)
(* The storage layer.  Every call may report kStorageError (`fault`) and   *)
(* then leaves storage as it was.                                          *)
(***************************************************************************)
\* storage::LoadHeader: the status; the header read is hdr itself.
LoadHeader(hdr, fault) ==
  IF fault = "err" THEN kStorageError
  ELSE IF ~hdr.present THEN kNotFound
  ELSE kSuccess

\* storage::StoreHeader: [status, header after the call].
StoreHeader(hdr, new_header, fault) ==
  IF fault = "err" THEN [status |-> kStorageError, header |-> hdr]
  ELSE [status |-> kSuccess, header |-> new_header]

\* storage::LoadSpace: the status; the blob read is blobs[index].
LoadSpace(blobs, index, fault) ==
  IF fault = "err" THEN kStorageError
  ELSE IF ~blobs[index].present THEN kNotFound
  ELSE kSuccess

\* storage::StoreSpace: [status, blobs after the call].
StoreSpace(blobs, index, space, fault) ==
  IF fault = "err" THEN [status |-> kStorageError, space_blobs |-> blobs]
  ELSE [status |-> kSuccess, space_blobs |-> [blobs EXCEPT ![index] = space]]

\* storage::DeleteSpace: [status, blobs after the call].  For a blob that is
\* absent the layer answers kSuccess (as the in-memory storage does) or
\* kNotFound (the answer NvramManager::Initialize has a case for).
DeleteSpace(blobs, index, fault) ==
  IF fault = "err" THEN [status |-> kStorageError, space_blobs |-> blobs]
  ELSE IF blobs[index].present
    THEN [status |-> kSuccess, space_blobs |-> [blobs EXCEPT ![index] = NoSpace]]
  ELSE IF fault = "notfound"
    THEN [status |-> kNotFound, space_blobs |-> blobs]
  ELSE [status |-> kSuccess, space_blobs |-> blobs]

(***************************************************************************)
(* NvramManager::FindSpace: the array position (from 0) of space_index,    *)
(* kMaxSpaces when there is none.                                          *)
(***************************************************************************)
FindSpace(spaces, space_index) ==
  IF \E k \in 1..Len(spaces) : spaces[k].index = space_index
    THEN (CHOOSE k \in 1..Len(spaces) :
            /\ spaces[k].index = space_index
            /\ \A j \in 1..(k - 1) : spaces[j].index # space_index) - 1
    ELSE kMaxSpaces

\* WriteHeader leaving a provisional index in place when it is given none.
WriteHeader_KeepsProvisional(w, provisional_index, fault) ==
  LET new_header ==
        [present |-> TRUE, version |-> kVersion,
         disable_create |-> w.disable_create,
         allocated_indices |-> TableIndices(w.spaces),
         provisional_index |->
           IF provisional_index.valid THEN provisional_index
           ELSE w.header.provisional_index]
      st == StoreHeader(w.header, new_header, fault)
  IN IF fault = "alloc"
       THEN [result |-> NV_RESULT_INTERNAL_ERROR, w |-> w, calls |-> <<>>]
     ELSE IF st.status # kSuccess
       THEN [result |-> NV_RESULT_INTERNAL_ERROR, w |-> w,
             calls |-> <<Call("StoreHeader", 0, st.status)>>]
     ELSE [result |-> NV_RESULT_SUCCESS, w |-> [w EXCEPT !.header = st.header],
           calls |-> <<Call("StoreHeader", 0, st.status)>>]

\* WriteHeader sizing allocated_indices one entry short.
WriteHeader_OmitsLast(w, provisional_index, fault) ==
  LET new_header ==
        [present |-> TRUE, version |-> kVersion,
         disable_create |-> w.disable_create,
         allocated_indices |->
           SubSeq(TableIndices(w.spaces), 1, Len(w.spaces) - 1),
         provisional_index |-> provisional_index]
      st == StoreHeader(w.header, new_header, fault)
  IN IF fault = "alloc"
       THEN [result |-> NV_RESULT_INTERNAL_ERROR, w |-> w, calls |-> <<>>]
     ELSE IF st.status # kSuccess
       THEN [result |-> NV_RESULT_INTERNAL_ERROR, w |-> w,
             calls |-> <<Call("StoreHeader", 0, st.status)>>]
     ELSE [result |-> NV_RESULT_SUCCESS, w |-> [w EXCEPT !.header = st.header],
           calls |-> <<Call("StoreHeader", 0, st.status)>>]

\* WriteHeader never setting kFlagDisableCreate.
WriteHeader_OmitsFlag(w, provisional_index, fault) ==
  LET new_header ==
        [present |-> TRUE, version |-> kVersion,
         disable_create |-> FALSE,
         allocated_indices |-> TableIndices(w.spaces),
         provisional_index |-> provisional_index]
      st == StoreHeader(w.header, new_header, fault)
  IN IF fault = "alloc"
       THEN [result |-> NV_RESULT_INTERNAL_ERROR, w |-> w, calls |-> <<>>]
     ELSE IF st.status # kSuccess
       THEN [result |-> NV_RESULT_INTERNAL_ERROR, w |-> w,
             calls |-> <<Call("StoreHeader", 0, st.status)>>]
     ELSE [result |-> NV_RESULT_SUCCESS, w |-> [w EXCEPT !.header = st.header],
           calls |-> <<Call("StoreHeader", 0, st.status)>>]

(***************************************************************************)
(* NvramManager::WriteHeader.  fault: "ok", "alloc" (Resize fails) or      *)
(* "err" (StoreHeader fails).                                              *)
(***************************************************************************)
WriteHeader(w, provisional_index, fault) ==
  LET new_header ==
        [present |-> TRUE, version |-> kVersion,
         disable_create |-> w.disable_create,
         allocated_indices |-> TableIndices(w.spaces),
         provisional_index |-> provisional_index]
      st == StoreHeader(w.header, new_header, fault)
  IN IF fault = "alloc"
       THEN [result |-> NV_RESULT_INTERNAL_ERROR, w |-> w, calls |-> <<>>]
     ELSE IF st.status # kSuccess
       THEN [result |-> NV_RESULT_INTERNAL_ERROR, w |-> w,
             calls |-> <<Call("StoreHeader", 0, st.status)>>]
     ELSE [result |-> NV_RESULT_SUCCESS, w |-> [w EXCEPT !.header = st.header],
           calls |-> <<Call("StoreHeader", 0, st.status)>>]

\* NvramManager::WriteSpace.  fault: "ok" or "err".
WriteSpace(w, index, space, fault) ==
  LET st == StoreSpace(w.space_blobs, index, space, fault)
  IN [result |-> IF st.status # kSuccess THEN NV_RESULT_INTERNAL_ERROR
                 ELSE NV_RESULT_SUCCESS,
      w |-> [w EXCEPT !.space_blobs = st.space_blobs],
      calls |-> <<Call("StoreSpace", index, st.status)>>]

(***************************************************************************)
(* NvramManager::Initialize.  f names the fault, if any, of each storage   *)
(* call it may make.  The result: ok (the return value), w (the manager    *)
(* and storage afterwards), ran (whether it did more than return at once)  *)
(* and calls (the storage calls made).                                     *)
(***************************************************************************)
InitFaults ==
  [load_header : {"ok", "err"}, load_space : {"ok", "err"},
   delete_space : {"ok", "err", "notfound"},
   write_header : {"ok", "alloc", "err"}]

NoInitFault ==
  [load_header |-> "ok", load_space |-> "ok", delete_space |-> "ok",
   write_header |-> "ok"]

\* The loop retaining the provisional index whatever storage holds.
InitializeEntries_KeepsAll(hdr, provisional_space_in_storage) ==
  [k \in 1..Len(hdr.allocated_indices) |->
     SpaceListEntry(hdr.allocated_indices[k])]

\* The loop skipping the provisional index whatever storage holds.
InitializeEntries_DropsProvisional(hdr, provisional_space_in_storage) ==
  LET provisional_index == hdr.provisional_index
      Retained(index) ==
        ~(provisional_index.valid /\ provisional_index.value = index)
      kept == SelectSeq(hdr.allocated_indices, Retained)
  IN [k \in 1..Len(kept) |-> SpaceListEntry(kept[k])]

\* The loop over header.allocated_indices: the entries appended to spaces_.
InitializeEntries(hdr, provisional_space_in_storage) ==
  LET provisional_index == hdr.provisional_index
      Retained(index) ==
        ~(/\ provisional_index.valid
          /\ provisional_index.value = index
          /\ ~provisional_space_in_storage)
      kept == SelectSeq(hdr.allocated_indices, Retained)
  IN [k \in 1..Len(kept) |-> SpaceListEntry(kept[k])]

\* Initialize taking a missing header for a storage error.
Initialize_NotFoundFails(w, f) ==
  LET hdr == w.header
      load_header == LoadHeader(hdr, f.load_header)
      provisional_index == hdr.provisional_index
      load_space ==
        IF provisional_index.valid
          THEN LoadSpace(w.space_blobs, provisional_index.value, f.load_space)
          ELSE kNotFound
      calls1 ==
        <<Call("LoadHeader", 0, load_header)>> \o
        (IF provisional_index.valid
           THEN <<Call("LoadSpace", provisional_index.value, load_space)>>
           ELSE <<>>)
      provisional_space_in_storage ==
        provisional_index.valid /\ load_space # kNotFound
      delete_provisional_space ==
        /\ provisional_index.valid
        /\ ~(/\ provisional_space_in_storage
             /\ provisional_index.value \in SeqRange(hdr.allocated_indices))
      w1 == [w EXCEPT !.spaces =
               @ \o InitializeEntries(hdr, provisional_space_in_storage)]
      del == IF delete_provisional_space
               THEN DeleteSpace(w.space_blobs, provisional_index.value,
                                f.delete_space)
               ELSE [status |-> kSuccess, space_blobs |-> w.space_blobs]
      calls2 ==
        calls1 \o
        (IF delete_provisional_space
           THEN <<Call("DeleteSpace", provisional_index.value, del.status)>>
           ELSE <<>>)
      w2 == [w1 EXCEPT !.space_blobs = del.space_blobs,
                       !.disable_create = hdr.disable_create,
                       !.initialized = TRUE]
      wh == WriteHeader(w2, NoIndex, f.write_header)
  IN IF w.initialized
       THEN [ok |-> TRUE, w |-> w, ran |-> FALSE, calls |-> <<>>]
     ELSE IF load_header = kStorageError
       THEN [ok |-> FALSE, w |-> w, ran |-> TRUE,
             calls |-> <<Call("LoadHeader", 0, load_header)>>]
     ELSE IF load_header = kNotFound
       THEN [ok |-> FALSE, w |-> w, ran |-> TRUE,
             calls |-> <<Call("LoadHeader", 0, load_header)>>]
     ELSE IF hdr.version > kVersion
       THEN [ok |-> FALSE, w |-> w, ran |-> TRUE,
             calls |-> <<Call("LoadHeader", 0, load_header)>>]
     ELSE IF Len(hdr.allocated_indices) > kMaxSpaces
       THEN [ok |-> FALSE, w |-> w, ran |-> TRUE, calls |-> calls1]
     ELSE IF delete_provisional_space /\ del.status # kSuccess
       THEN [ok |-> FALSE, w |-> w1, ran |-> TRUE, calls |-> calls2]
     ELSE IF provisional_index.valid
       THEN [ok |-> TRUE, w |-> wh.w, ran |-> TRUE,
             calls |-> calls2 \o wh.calls]
     ELSE [ok |-> TRUE, w |-> w2, ran |-> TRUE, calls |-> calls2]

\* Initialize with delete_provisional_space starting out false.
Initialize_NeverDeletes(w, f) ==
  LET hdr == w.header
      load_header == LoadHeader(hdr, f.load_header)
      provisional_index == hdr.provisional_index
      load_space ==
        IF provisional_index.valid
          THEN LoadSpace(w.space_blobs, provisional_index.value, f.load_space)
          ELSE kNotFound
      calls1 ==
        <<Call("LoadHeader", 0, load_header)>> \o
        (IF provisional_index.valid
           THEN <<Call("LoadSpace", provisional_index.value, load_space)>>
           ELSE <<>>)
      provisional_space_in_storage ==
        provisional_index.valid /\ load_space # kNotFound
      delete_provisional_space == FALSE
      w1 == [w EXCEPT !.spaces =
               @ \o InitializeEntries(hdr, provisional_space_in_storage)]
      del == IF delete_provisional_space
               THEN DeleteSpace(w.space_blobs, provisional_index.value,
                                f.delete_space)
               ELSE [status |-> kSuccess, space_blobs |-> w.space_blobs]
      calls2 ==
        calls1 \o
        (IF delete_provisional_space
           THEN <<Call("DeleteSpace", provisional_index.value, del.status)>>
           ELSE <<>>)
      w2 == [w1 EXCEPT !.space_blobs = del.space_blobs,
                       !.disable_create = hdr.disable_create,
                       !.initialized = TRUE]
      wh == WriteHeader(w2, NoIndex, f.write_header)
  IN IF w.initialized
       THEN [ok |-> TRUE, w |-> w, ran |-> FALSE, calls |-> <<>>]
     ELSE IF load_header = kStorageError
       THEN [ok |-> FALSE, w |-> w, ran |-> TRUE,
             calls |-> <<Call("LoadHeader", 0, load_header)>>]
     ELSE IF load_header = kNotFound
       THEN [ok |-> TRUE, w |-> [w EXCEPT !.initialized = TRUE], ran |-> TRUE,
             calls |-> <<Call("LoadHeader", 0, load_header)>>]
     ELSE IF hdr.version > kVersion
       THEN [ok |-> FALSE, w |-> w, ran |-> TRUE,
             calls |-> <<Call("LoadHeader", 0, load_header)>>]
     ELSE IF Len(hdr.allocated_indices) > kMaxSpaces
       THEN [ok |-> FALSE, w |-> w, ran |-> TRUE, calls |-> calls1]
     ELSE IF delete_provisional_space /\ del.status # kSuccess
       THEN [ok |-> FALSE, w |-> w1, ran |-> TRUE, calls |-> calls2]
     ELSE IF provisional_index.valid
       THEN [ok |-> TRUE, w |-> wh.w, ran |-> TRUE,
             calls |-> calls2 \o wh.calls]
     ELSE [ok |-> TRUE, w |-> w2, ran |-> TRUE, calls |-> calls2]

\* Initialize comparing the version against one more than it knows.
Initialize_AcceptsNewer(w, f) ==
  LET hdr == w.header
      load_header == LoadHeader(hdr, f.load_header)
      provisional_index == hdr.provisional_index
      load_space ==
        IF provisional_index.valid
          THEN LoadSpace(w.space_blobs, provisional_index.value, f.load_space)
          ELSE kNotFound
      calls1 ==
        <<Call("LoadHeader", 0, load_header)>> \o
        (IF provisional_index.valid
           THEN <<Call("LoadSpace", provisional_index.value, load_space)>>
           ELSE <<>>)
      provisional_space_in_storage ==
        provisional_index.valid /\ load_space # kNotFound
      delete_provisional_space ==
        /\ provisional_index.valid
        /\ ~(/\ provisional_space_in_storage
             /\ provisional_index.value \in SeqRange(hdr.allocated_indices))
      w1 == [w EXCEPT !.spaces =
               @ \o InitializeEntries(hdr, provisional_space_in_storage)]
      del == IF delete_provisional_space
               THEN DeleteSpace(w.space_blobs, provisional_index.value,
                                f.delete_space)
               ELSE [status |-> kSuccess, space_blobs |-> w.space_blobs]
      calls2 ==
        calls1 \o
        (IF delete_provisional_space
           THEN <<Call("DeleteSpace", provisional_index.value, del.status)>>
           ELSE <<>>)
      w2 == [w1 EXCEPT !.space_blobs = del.space_blobs,
                       !.disable_create = hdr.disable_create,
                       !.initialized = TRUE]
      wh == WriteHeader(w2, NoIndex, f.write_header)
  IN IF w.initialized
       THEN [ok |-> TRUE, w |-> w, ran |-> FALSE, calls |-> <<>>]
     ELSE IF load_header = kStorageError
       THEN [ok |-> FALSE, w |-> w, ran |-> TRUE,
             calls |-> <<Call("LoadHeader", 0, load_header)>>]
     ELSE IF load_header = kNotFound
       THEN [ok |-> TRUE, w |-> [w EXCEPT !.initialized = TRUE], ran |-> TRUE,
             calls |-> <<Call("LoadHeader", 0, load_header)>>]
     ELSE IF hdr.version > kVersion + 1
       THEN [ok |-> FALSE, w |-> w, ran |-> TRUE,
             calls |-> <<Call("LoadHeader", 0, load_header)>>]
     ELSE IF Len(hdr.allocated_indices) > kMaxSpaces
       THEN [ok |-> FALSE, w |-> w, ran |-> TRUE, calls |-> calls1]
     ELSE IF delete_provisional_space /\ del.status # kSuccess
       THEN [ok |-> FALSE, w |-> w1, ran |-> TRUE, calls |-> calls2]
     ELSE IF provisional_index.valid
       THEN [ok |-> TRUE, w |-> wh.w, ran |-> TRUE,
             calls |-> calls2 \o wh.calls]
     ELSE [ok |-> TRUE, w |-> w2, ran |-> TRUE, calls |-> calls2]

\* Initialize taking a provisional space that fails to load for absent.
Initialize_LoadErrorAsAbsent(w, f) ==
  LET hdr == w.header
      load_header == LoadHeader(hdr, f.load_header)
      provisional_index == hdr.provisional_index
      load_space ==
        IF provisional_index.valid
          THEN LoadSpace(w.space_blobs, provisional_index.value, f.load_space)
          ELSE kNotFound
      calls1 ==
        <<Call("LoadHeader", 0, load_header)>> \o
        (IF provisional_index.valid
           THEN <<Call("LoadSpace", provisional_index.value, load_space)>>
           ELSE <<>>)
      provisional_space_in_storage ==
        provisional_index.valid /\ load_space = kSuccess
      delete_provisional_space ==
        /\ provisional_index.valid
        /\ ~(/\ provisional_space_in_storage
             /\ provisional_index.value \in SeqRange(hdr.allocated_indices))
      w1 == [w EXCEPT !.spaces =
               @ \o InitializeEntries(hdr, provisional_space_in_storage)]
      del == IF delete_provisional_space
               THEN DeleteSpace(w.space_blobs, provisional_index.value,
                                f.delete_space)
               ELSE [status |-> kSuccess, space_blobs |-> w.space_blobs]
      calls2 ==
        calls1 \o
        (IF delete_provisional_space
           THEN <<Call("DeleteSpace", provisional_index.value, del.status)>>
           ELSE <<>>)
      w2 == [w1 EXCEPT !.space_blobs = del.space_blobs,
                       !.disable_create = hdr.disable_create,
                       !.initialized = TRUE]
      wh == WriteHeader(w2, NoIndex, f.write_header)
  IN IF w.initialized
       THEN [ok |-> TRUE, w |-> w, ran |-> FALSE, calls |-> <<>>]
     ELSE IF load_header = kStorageError
       THEN [ok |-> FALSE, w |-> w, ran |-> TRUE,
             calls |-> <<Call("LoadHeader", 0, load_header)>>]
     ELSE IF load_header = kNotFound
       THEN [ok |-> TRUE, w |-> [w EXCEPT !.initialized = TRUE], ran |-> TRUE,
             calls |-> <<Call("LoadHeader", 0, load_header)>>]
     ELSE IF hdr.version > kVersion
       THEN [ok |-> FALSE, w |-> w, ran |-> TRUE,
             calls |-> <<Call("LoadHeader", 0, load_header)>>]
     ELSE IF Len(hdr.allocated_indices) > kMaxSpaces
       THEN [ok |-> FALSE, w |-> w, ran |-> TRUE, calls |-> calls1]
     ELSE IF delete_provisional_space /\ del.status # kSuccess
       THEN [ok |-> FALSE, w |-> w1, ran |-> TRUE, calls |-> calls2]
     ELSE IF provisional_index.valid
       THEN [ok |-> TRUE, w |-> wh.w, ran |-> TRUE,
             calls |-> calls2 \o wh.calls]
     ELSE [ok |-> TRUE, w |-> w2, ran |-> TRUE, calls |-> calls2]

\* Initialize failing when its clearing header write fails.
Initialize_ClearingWriteRequired(w, f) ==
  LET hdr == w.header
      load_header == LoadHeader(hdr, f.load_header)
      provisional_index == hdr.provisional_index
      load_space ==
        IF provisional_index.valid
          THEN LoadSpace(w.space_blobs, provisional_index.value, f.load_space)
          ELSE kNotFound
      calls1 ==
        <<Call("LoadHeader", 0, load_header)>> \o
        (IF provisional_index.valid
           THEN <<Call("LoadSpace", provisional_index.value, load_space)>>
           ELSE <<>>)
      provisional_space_in_storage ==
        provisional_index.valid /\ load_space # kNotFound
      delete_provisional_space ==
        /\ provisional_index.valid
        /\ ~(/\ provisional_space_in_storage
             /\ provisional_index.value \in SeqRange(hdr.allocated_indices))
      w1 == [w EXCEPT !.spaces =
               @ \o InitializeEntries(hdr, provisional_space_in_storage)]
      del == IF delete_provisional_space
               THEN DeleteSpace(w.space_blobs, provisional_index.value,
                                f.delete_space)
               ELSE [status |-> kSuccess, space_blobs |-> w.space_blobs]
      calls2 ==
        calls1 \o
        (IF delete_provisional_space
           THEN <<Call("DeleteSpace", provisional_index.value, del.status)>>
           ELSE <<>>)
      w2 == [w1 EXCEPT !.space_blobs = del.space_blobs,
                       !.disable_create = hdr.disable_create,
                       !.initialized = TRUE]
      wh == WriteHeader(w2, NoIndex, f.write_header)
  IN IF w.initialized
       THEN [ok |-> TRUE, w |-> w, ran |-> FALSE, calls |-> <<>>]
     ELSE IF load_header = kStorageError
       THEN [ok |-> FALSE, w |-> w, ran |-> TRUE,
             calls |-> <<Call("LoadHeader", 0, load_header)>>]
     ELSE IF load_header = kNotFound
       THEN [ok |-> TRUE, w |-> [w EXCEPT !.initialized = TRUE], ran |-> TRUE,
             calls |-> <<Call("LoadHeader", 0, load_header)>>]
     ELSE IF hdr.version > kVersion
       THEN [ok |-> FALSE, w |-> w, ran |-> TRUE,
             calls |-> <<Call("LoadHeader", 0, load_header)>>]
     ELSE IF Len(hdr.allocated_indices) > kMaxSpaces
       THEN [ok |-> FALSE, w |-> w, ran |-> TRUE, calls |-> calls1]
     ELSE IF delete_provisional_space /\ del.status # kSuccess
       THEN [ok |-> FALSE, w |-> w1, ran |-> TRUE, calls |-> calls2]
     ELSE IF provisional_index.valid
       THEN [ok |-> wh.result = NV_RESULT_SUCCESS, w |-> wh.w, ran |-> TRUE,
             calls |-> calls2 \o wh.calls]
     ELSE [ok |-> TRUE, w |-> w2, ran |-> TRUE, calls |-> calls2]

\* Initialize without the check of the number of allocated indices.
Initialize_AcceptsExcess(w, f) ==
  LET hdr == w.header
      load_header == LoadHeader(hdr, f.load_header)
      provisional_index == hdr.provisional_index
      load_space ==
        IF provisional_index.valid
          THEN LoadSpace(w.space_blobs, provisional_index.value, f.load_space)
          ELSE kNotFound
      calls1 ==
        <<Call("LoadHeader", 0, load_header)>> \o
        (IF provisional_index.valid
           THEN <<Call("LoadSpace", provisional_index.value, load_space)>>
           ELSE <<>>)
      provisional_space_in_storage ==
        provisional_index.valid /\ load_space # kNotFound
      delete_provisional_space ==
        /\ provisional_index.valid
        /\ ~(/\ provisional_space_in_storage
             /\ provisional_index.value \in SeqRange(hdr.allocated_indices))
      w1 == [w EXCEPT !.spaces =
               @ \o InitializeEntries(hdr, provisional_space_in_storage)]
      del == IF delete_provisional_space
               THEN DeleteSpace(w.space_blobs, provisional_index.value,
                                f.delete_space)
               ELSE [status |-> kSuccess, space_blobs |-> w.space_blobs]
      calls2 ==
        calls1 \o
        (IF delete_provisional_space
           THEN <<Call("DeleteSpace", provisional_index.value, del.status)>>
           ELSE <<>>)
      w2 == [w1 EXCEPT !.space_blobs = del.space_blobs,
                       !.disable_create = hdr.disable_create,
                       !.initialized = TRUE]
      wh == WriteHeader(w2, NoIndex, f.write_header)
  IN IF w.initialized
       THEN [ok |-> TRUE, w |-> w, ran |-> FALSE, calls |-> <<>>]
     ELSE IF load_header = kStorageError
       THEN [ok |-> FALSE, w |-> w, ran |-> TRUE,
             calls |-> <<Call("LoadHeader", 0, load_header)>>]
     ELSE IF load_header = kNotFound
       THEN [ok |-> TRUE, w |-> [w EXCEPT !.initialized = TRUE], ran |-> TRUE,
             calls |-> <<Call("LoadHeader", 0, load_header)>>]
     ELSE IF hdr.version > kVersion
       THEN [ok |-> FALSE, w |-> w, ran |-> TRUE,
             calls |-> <<Call("LoadHeader", 0, load_header)>>]
     ELSE IF delete_provisional_space /\ del.status # kSuccess
       THEN [ok |-> FALSE, w |-> w1, ran |-> TRUE, calls |-> calls2]
     ELSE IF provisional_index.valid
       THEN [ok |-> TRUE, w |-> wh.w, ran |-> TRUE,
             calls |-> calls2 \o wh.calls]
     ELSE [ok |-> TRUE, w |-> w2, ran |-> TRUE, calls |-> calls2]

\* Initialize without the early return of lines 228-229.
Initialize_AlwaysRuns(w, f) ==
  LET hdr == w.header
      load_header == LoadHeader(hdr, f.load_header)
      provisional_index == hdr.provisional_index
      load_space ==
        IF provisional_index.valid
          THEN LoadSpace(w.space_blobs, provisional_index.value, f.load_space)
          ELSE kNotFound
      calls1 ==
        <<Call("LoadHeader", 0, load_header)>> \o
        (IF provisional_index.valid
           THEN <<Call("LoadSpace", provisional_index.value, load_space)>>
           ELSE <<>>)
      provisional_space_in_storage ==
        provisional_index.valid /\ load_space # kNotFound
      delete_provisional_space ==
        /\ provisional_index.valid
        /\ ~(/\ provisional_space_in_storage
             /\ provisional_index.value \in SeqRange(hdr.allocated_indices))
      w1 == [w EXCEPT !.spaces =
               @ \o InitializeEntries(hdr, provisional_space_in_storage)]
      del == IF delete_provisional_space
               THEN DeleteSpace(w.space_blobs, provisional_index.value,
                                f.delete_space)
               ELSE [status |-> kSuccess, space_blobs |-> w.space_blobs]
      calls2 ==
        calls1 \o
        (IF delete_provisional_space
           THEN <<Call("DeleteSpace", provisional_index.value, del.status)>>
           ELSE <<>>)
      w2 == [w1 EXCEPT !.space_blobs = del.space_blobs,
                       !.disable_create = hdr.disable_create,
                       !.initialized = TRUE]
      wh == WriteHeader(w2, NoIndex, f.write_header)
  IN IF load_header = kStorageError
       THEN [ok |-> FALSE, w |-> w, ran |-> TRUE,
             calls |-> <<Call("LoadHeader", 0, load_header)>>]
     ELSE IF load_header = kNotFound
       THEN [ok |-> TRUE, w |-> [w EXCEPT !.initialized = TRUE], ran |-> TRUE,
             calls |-> <<Call("LoadHeader", 0, load_header)>>]
     ELSE IF hdr.version > kVersion
       THEN [ok |-> FALSE, w |-> w, ran |-> TRUE,
             calls |-> <<Call("LoadHeader", 0, load_header)>>]
     ELSE IF Len(hdr.allocated_indices) > kMaxSpaces
       THEN [ok |-> FALSE, w |-> w, ran |-> TRUE, calls |-> calls1]
     ELSE IF delete_provisional_space /\ del.status # kSuccess
       THEN [ok |-> FALSE, w |-> w1, ran |-> TRUE, calls |-> calls2]
     ELSE IF provisional_index.valid
       THEN [ok |-> TRUE, w |-> wh.w, ran |-> TRUE,
             calls |-> calls2 \o wh.calls]
     ELSE [ok |-> TRUE, w |-> w2, ran |-> TRUE, calls |-> calls2]

\* Initialize without the assignment to disable_create_ of line 334.
Initialize_ForgetsDisable(w, f) ==
  LET hdr == w.header
      load_header == LoadHeader(hdr, f.load_header)
      provisional_index == hdr.provisional_index
      load_space ==
        IF provisional_index.valid
          THEN LoadSpace(w.space_blobs, provisional_index.value, f.load_space)
          ELSE kNotFound
      calls1 ==
        <<Call("LoadHeader", 0, load_header)>> \o
        (IF provisional_index.valid
           THEN <<Call("LoadSpace", provisional_index.value, load_space)>>
           ELSE <<>>)
      provisional_space_in_storage ==
        provisional_index.valid /\ load_space # kNotFound
      delete_provisional_space ==
        /\ provisional_index.valid
        /\ ~(/\ provisional_space_in_storage
             /\ provisional_index.value \in SeqRange(hdr.allocated_indices))
      w1 == [w EXCEPT !.spaces =
               @ \o InitializeEntries(hdr, provisional_space_in_storage)]
      del == IF delete_provisional_space
               THEN DeleteSpace(w.space_blobs, provisional_index.value,
                                f.delete_space)
               ELSE [status |-> kSuccess, space_blobs |-> w.space_blobs]
      calls2 ==
        calls1 \o
        (IF delete_provisional_space
           THEN <<Call("DeleteSpace", provisional_index.value, del.status)>>
           ELSE <<>>)
      w2 == [w1 EXCEPT !.space_blobs = del.space_blobs,
                       !.initialized = TRUE]
      wh == WriteHeader(w2, NoIndex, f.write_header)
  IN IF w.initialized
       THEN [ok |-> TRUE, w |-> w, ran |-> FALSE, calls |-> <<>>]
     ELSE IF load_header = kStorageError
       THEN [ok |-> FALSE, w |-> w, ran |-> TRUE,
             calls |-> <<Call("LoadHeader", 0, load_header)>>]
     ELSE IF load_header = kNotFound
       THEN [ok |-> TRUE, w |-> [w EXCEPT !.initialized = TRUE], ran |-> TRUE,
             calls |-> <<Call("LoadHeader", 0, load_header)>>]
     ELSE IF hdr.version > kVersion
       THEN [ok |-> FALSE, w |-> w, ran |-> TRUE,
             calls |-> <<Call("LoadHeader", 0, load_header)>>]
     ELSE IF Len(hdr.allocated_indices) > kMaxSpaces
       THEN [ok |-> FALSE, w |-> w, ran |-> TRUE, calls |-> calls1]
     ELSE IF delete_provisional_space /\ del.status # kSuccess
       THEN [ok |-> FALSE, w |-> w1, ran |-> TRUE, calls |-> calls2]
     ELSE IF provisional_index.valid
       THEN [ok |-> TRUE, w |-> wh.w, ran |-> TRUE,
             calls |-> calls2 \o wh.calls]
     ELSE [ok |-> TRUE, w |-> w2, ran |-> TRUE, calls |-> calls2]

Initialize(w, f) ==
  LET hdr == w.header
      load_header == LoadHeader(hdr, f.load_header)
      provisional_index == hdr.provisional_index
      load_space ==
        IF provisional_index.valid
          THEN LoadSpace(w.space_blobs, provisional_index.value, f.load_space)
          ELSE kNotFound
      calls1 ==
        <<Call("LoadHeader", 0, load_header)>> \o
        (IF provisional_index.valid
           THEN <<Call("LoadSpace", provisional_index.value, load_space)>>
           ELSE <<>>)
      provisional_space_in_storage ==
        provisional_index.valid /\ load_space # kNotFound
      delete_provisional_space ==
        /\ provisional_index.valid
        /\ ~(/\ provisional_space_in_storage
             /\ provisional_index.value \in SeqRange(hdr.allocated_indices))
      w1 == [w EXCEPT !.spaces =
               @ \o InitializeEntries(hdr, provisional_space_in_storage)]
      del == IF delete_provisional_space
               THEN DeleteSpace(w.space_blobs, provisional_index.value,
                                f.delete_space)
               ELSE [status |-> kSuccess, space_blobs |-> w.space_blobs]
      calls2 ==
        calls1 \o
        (IF delete_provisional_space
           THEN <<Call("DeleteSpace", provisional_index.value, del.status)>>
           ELSE <<>>)
      w2 == [w1 EXCEPT !.space_blobs = del.space_blobs,
                       !.disable_create = hdr.disable_create,
                       !.initialized = TRUE]
      wh == WriteHeader(w2, NoIndex, f.write_header)
  IN IF w.initialized
       THEN [ok |-> TRUE, w |-> w, ran |-> FALSE, calls |-> <<>>]
     ELSE IF load_header = kStorageError
       THEN [ok |-> FALSE, w |-> w, ran |-> TRUE,
             calls |-> <<Call("LoadHeader", 0, load_header)>>]
     ELSE IF load_header = kNotFound
       THEN [ok |-> TRUE, w |-> [w EXCEPT !.initialized = TRUE], ran |-> TRUE,
             calls |-> <<Call("LoadHeader", 0, load_header)>>]
     ELSE IF hdr.version > kVersion
       THEN [ok |-> FALSE, w |-> w, ran |-> TRUE,
             calls |-> <<Call("LoadHeader", 0, load_header)>>]
     ELSE IF Len(hdr.allocated_indices) > kMaxSpaces
       THEN [ok |-> FALSE, w |-> w, ran |-> TRUE, calls |-> calls1]
     ELSE IF delete_provisional_space /\ del.status # kSuccess
       THEN [ok |-> FALSE, w |-> w1, ran |-> TRUE, calls |-> calls2]
     ELSE IF provisional_index.valid
       THEN [ok |-> TRUE, w |-> wh.w, ran |-> TRUE,
             calls |-> calls2 \o wh.calls]
     ELSE [ok |-> TRUE, w |-> w2, ran |-> TRUE, calls |-> calls2]

(***************************************************************************)
(* Requests and what the handlers report.                                  *)
(***************************************************************************)
NoRequest ==
  [index |-> 0, size |-> 0, controls |-> <<>>, authorization_value |-> <<>>]

NoResponse == [none |-> TRUE]

\* No request came before.
NoBefore == [op |-> "None", index |-> 0, result |-> "NONE", failure |-> "none"]

\* What a handler hands back: the manager and storage afterwards, the result
\* code, the response fields, the storage calls made after Initialize, what
\* failed underneath it ("none" when nothing did) and whether the device lost
\* power before the handler returned.
Reply(w, result, response, calls) ==
  [w |-> w, result |-> result, response |-> response, calls |-> calls,
   failure |-> "none", crashed |-> FALSE]

\* A return of NV_RESULT_INTERNAL_ERROR after `failure`.
Fail(w, calls, failure) ==
  [w |-> w, result |-> NV_RESULT_INTERNAL_ERROR, response |-> NoResponse,
   calls |-> calls, failure |-> failure, crashed |-> FALSE]

Crash(w, calls) ==
  [w |-> w, result |-> "NONE", response |-> NoResponse, calls |-> calls,
   failure |-> "power", crashed |-> TRUE]

\* NvramSpace::HasControl
HasControl(space, control) == control \in space.controls

\* `1 << control` as a set of bits.  A shift by the width of int or more is
\* undefined: the build either masks the shift count or yields 0.
ControlBit(control, wraps) ==
  IF control < kShiftWidth THEN {control}
  ELSE IF wraps THEN {control % kShiftWidth}
  ELSE {}

\* The loop `controls |= (1 << control)` of CreateSpace.
ControlsMask(controls, wraps) ==
  UNION { ControlBit(controls[k], wraps) : k \in 1..Len(controls) }

\* GetControlsVector: the set bits of space.controls in ascending order.
GetControlsVector(space) ==
  LET bits == { c \in 0..(kShiftWidth - 1) : HasControl(space, c) }
  IN [k \in 1..Cardinality(bits) |->
        CHOOSE c \in bits : Cardinality({ d \in bits : d < c }) = k - 1]

\* size_t arithmetic is unsigned and wraps.  The source wraps at 2^64 (2^32
\* on a 32-bit build); the model wraps at 2^30, which holds every size that
\* occurs and stays within the integers of the model checker.
kSizeModulus == 2^30

\* GetInfo reading the header from storage again.
GetInfoBody_ReloadsHeader(w, fault) ==
  IF fault = "alloc"
    THEN Fail(w, <<>>, "alloc")
    ELSE Reply(w, NV_RESULT_SUCCESS,
               [total_size |-> kMaxSpaceSize * kMaxSpaces,
                available_size |->
                  (kMaxSpaceSize * (kMaxSpaces - Len(w.spaces)))
                    % kSizeModulus,
                max_spaces |-> kMaxSpaces,
                space_list |-> TableIndices(w.spaces)],
               <<Call("LoadHeader", 0, LoadHeader(w.header, "ok"))>>)

(***************************************************************************)
(* NvramManager::GetInfo, after Initialize.  fault: "ok" or "alloc".       *)
(***************************************************************************)
GetInfoBody(w, fault) ==
  IF fault = "alloc"
    THEN Fail(w, <<>>, "alloc")
    ELSE Reply(w, NV_RESULT_SUCCESS,
               [total_size |-> kMaxSpaceSize * kMaxSpaces,
                available_size |->
                  (kMaxSpaceSize * (kMaxSpaces - Len(w.spaces)))
                    % kSizeModulus,
                max_spaces |-> kMaxSpaces,
                space_list |-> TableIndices(w.spaces)],
               <<>>)

(***************************************************************************)
(* NvramManager::CreateSpace, after Initialize.  sc names what goes wrong, *)
(* if anything: an allocation failure, a failed store, or a loss of power  *)
(* at one of the points between the storage writes.                        *)
(***************************************************************************)
CreateScenarios ==
  {"none", "alloc_auth", "alloc_contents", "alloc_header", "store_header",
   "store_space", "crash_before_header", "crash_after_header",
   "crash_after_space"}

\* The failure paths without `--num_spaces_`.
DropLast_Forgets(spaces) == spaces

\* `--num_spaces_`
DropLast(spaces) == SubSeq(spaces, 1, Len(spaces) - 1)

\* CreateSpace storing the space blob before the header.
CreateSpaceCommit_SpaceFirst(w, request, controls, sc) ==
  LET index == request.index
      w1 == [w EXCEPT !.spaces = Append(@, SpaceListEntry(index))]
      copy_auth ==
        \/ NV_CONTROL_WRITE_AUTHORIZATION \in controls
        \/ NV_CONTROL_READ_AUTHORIZATION \in controls
      space ==
        [present |-> TRUE, flags |-> {}, controls |-> controls,
         authorization_value |->
           IF copy_auth THEN request.authorization_value ELSE <<>>,
         contents |-> [size |-> request.size, byte |-> 0]]
      ws == WriteSpace(w1, index, space,
                       IF sc = "store_space" THEN "err" ELSE "ok")
      wh == WriteHeader(ws.w, SomeIndex(index),
                        IF sc = "alloc_header" THEN "alloc"
                        ELSE IF sc = "store_header" THEN "err" ELSE "ok")
  IN IF copy_auth /\ sc = "alloc_auth"
       THEN Fail(w1, <<>>, "alloc")
     ELSE IF sc = "alloc_contents"
       THEN Fail(w1, <<>>, "alloc")
     ELSE IF sc = "crash_before_header"
       THEN Crash(w1, <<>>)
     ELSE IF ws.result # NV_RESULT_SUCCESS
       THEN Fail([ws.w EXCEPT !.spaces = DropLast(@)], ws.calls,
                 "store_space")
     ELSE IF sc = "crash_after_space"
       THEN Crash(ws.w, ws.calls)
     ELSE IF wh.result # NV_RESULT_SUCCESS
       THEN Fail([wh.w EXCEPT !.spaces = DropLast(@)], ws.calls \o wh.calls,
                 IF wh.calls = <<>> THEN "alloc" ELSE "store_header")
     ELSE IF sc = "crash_after_header"
       THEN Crash(wh.w, ws.calls \o wh.calls)
     ELSE Reply(wh.w, wh.result, NoResponse, ws.calls \o wh.calls)

\* CreateSpace copying the authorization value whatever the controls are.
CreateSpaceCommit_AlwaysCopiesAuth(w, request, controls, sc) ==
  LET index == request.index
      w1 == [w EXCEPT !.spaces = Append(@, SpaceListEntry(index))]
      copy_auth ==
        \/ NV_CONTROL_WRITE_AUTHORIZATION \in controls
        \/ NV_CONTROL_READ_AUTHORIZATION \in controls
      space ==
        [present |-> TRUE, flags |-> {}, controls |-> controls,
         authorization_value |-> request.authorization_value,
         contents |-> [size |-> request.size, byte |-> 0]]
      wh == WriteHeader(w1, SomeIndex(index),
                        IF sc = "alloc_header" THEN "alloc"
                        ELSE IF sc = "store_header" THEN "err" ELSE "ok")
      ws == WriteSpace(wh.w, index, space,
                       IF sc = "store_space" THEN "err" ELSE "ok")
  IN IF copy_auth /\ sc = "alloc_auth"
       THEN Fail(w1, <<>>, "alloc")
     ELSE IF sc = "alloc_contents"
       THEN Fail(w1, <<>>, "alloc")
     ELSE IF sc = "crash_before_header"
       THEN Crash(w1, <<>>)
     ELSE IF wh.result # NV_RESULT_SUCCESS
       THEN Fail([wh.w EXCEPT !.spaces = DropLast(@)], wh.calls,
                 IF wh.calls = <<>> THEN "alloc" ELSE "store_header")
     ELSE IF sc = "crash_after_header"
       THEN Crash(wh.w, wh.calls)
     ELSE IF ws.result # NV_RESULT_SUCCESS
       THEN Fail([ws.w EXCEPT !.spaces = DropLast(@)], wh.calls \o ws.calls,
                 "store_space")
     ELSE IF sc = "crash_after_space"
       THEN Crash(ws.w, wh.calls \o ws.calls)
     ELSE Reply(ws.w, ws.result, NoResponse, wh.calls \o ws.calls)

\* Lines 134-176: from marking the index as allocated to the return.
CreateSpaceCommit(w, request, controls, sc) ==
  LET index == request.index
      w1 == [w EXCEPT !.spaces = Append(@, SpaceListEntry(index))]
      copy_auth ==
        \/ NV_CONTROL_WRITE_AUTHORIZATION \in controls
        \/ NV_CONTROL_READ_AUTHORIZATION \in controls
      space ==
        [present |-> TRUE, flags |-> {}, controls |-> controls,
         authorization_value |->
           IF copy_auth THEN request.authorization_value ELSE <<>>,
         contents |-> [size |-> request.size, byte |-> 0]]
      wh == WriteHeader(w1, SomeIndex(index),
                        IF sc = "alloc_header" THEN "alloc"
                        ELSE IF sc = "store_header" THEN "err" ELSE "ok")
      ws == WriteSpace(wh.w, index, space,
                       IF sc = "store_space" THEN "err" ELSE "ok")
  IN IF copy_auth /\ sc = "alloc_auth"
       THEN Fail(w1, <<>>, "alloc")
     ELSE IF sc = "alloc_contents"
       THEN Fail(w1, <<>>, "alloc")
     ELSE IF sc = "crash_before_header"
       THEN Crash(w1, <<>>)
     ELSE IF wh.result # NV_RESULT_SUCCESS
       THEN Fail([wh.w EXCEPT !.spaces = DropLast(@)], wh.calls,
                 IF wh.calls = <<>> THEN "alloc" ELSE "store_header")
     ELSE IF sc = "crash_after_header"
       THEN Crash(wh.w, wh.calls)
     ELSE IF ws.result # NV_RESULT_SUCCESS
       THEN Fail([ws.w EXCEPT !.spaces = DropLast(@)], wh.calls \o ws.calls,
                 "store_space")
     ELSE IF sc = "crash_after_space"
       THEN Crash(ws.w, wh.calls \o ws.calls)
     ELSE Reply(ws.w, ws.result, NoResponse, wh.calls \o ws.calls)

\* The checks of the request without the one of lines 129-132.
CreateSpaceBody_BothWriteLocks(w, request, sc, wraps) ==
  LET controls == ControlsMask(request.controls, wraps)
  IN IF w.disable_create
       THEN Reply(w, NV_RESULT_OPERATION_DISABLED, NoResponse, <<>>)
     ELSE IF FindSpace(w.spaces, request.index) # kMaxSpaces
       THEN Reply(w, NV_RESULT_SPACE_ALREADY_EXISTS, NoResponse, <<>>)
     ELSE IF Len(w.spaces) + 1 > kMaxSpaces
       THEN Reply(w, NV_RESULT_INVALID_PARAMETER, NoResponse, <<>>)
     ELSE IF request.size > kMaxSpaceSize
       THEN Reply(w, NV_RESULT_INVALID_PARAMETER, NoResponse, <<>>)
     ELSE IF Len(request.authorization_value) > kMaxAuthSize
       THEN Reply(w, NV_RESULT_INVALID_PARAMETER, NoResponse, <<>>)
     ELSE IF controls \ kSupportedControlsMask # {}
       THEN Reply(w, NV_RESULT_INVALID_PARAMETER, NoResponse, <<>>)
     ELSE CreateSpaceCommit(w, request, controls, sc)

\* The checks of the request without the one of lines 100-103.
CreateSpaceBody_IgnoresExisting(w, request, sc, wraps) ==
  LET controls == ControlsMask(request.controls, wraps)
  IN IF w.disable_create
       THEN Reply(w, NV_RESULT_OPERATION_DISABLED, NoResponse, <<>>)
     ELSE IF Len(w.spaces) + 1 > kMaxSpaces
       THEN Reply(w, NV_RESULT_INVALID_PARAMETER, NoResponse, <<>>)
     ELSE IF request.size > kMaxSpaceSize
       THEN Reply(w, NV_RESULT_INVALID_PARAMETER, NoResponse, <<>>)
     ELSE IF Len(request.authorization_value) > kMaxAuthSize
       THEN Reply(w, NV_RESULT_INVALID_PARAMETER, NoResponse, <<>>)
     ELSE IF controls \ kSupportedControlsMask # {}
       THEN Reply(w, NV_RESULT_INVALID_PARAMETER, NoResponse, <<>>)
     ELSE IF /\ NV_CONTROL_PERSISTENT_WRITE_LOCK \in controls
             /\ NV_CONTROL_BOOT_WRITE_LOCK \in controls
       THEN Reply(w, NV_RESULT_INVALID_PARAMETER, NoResponse, <<>>)
     ELSE CreateSpaceCommit(w, request, controls, sc)

\* Lines 95-132: the checks of the request, in the order of the code.
CreateSpaceBody(w, request, sc, wraps) ==
  LET controls == ControlsMask(request.controls, wraps)
  IN IF w.disable_create
       THEN Reply(w, NV_RESULT_OPERATION_DISABLED, NoResponse, <<>>)
     ELSE IF FindSpace(w.spaces, request.index) # kMaxSpaces
       THEN Reply(w, NV_RESULT_SPACE_ALREADY_EXISTS, NoResponse, <<>>)
     ELSE IF Len(w.spaces) + 1 > kMaxSpaces
       THEN Reply(w, NV_RESULT_INVALID_PARAMETER, NoResponse, <<>>)
     ELSE IF request.size > kMaxSpaceSize
       THEN Reply(w, NV_RESULT_INVALID_PARAMETER, NoResponse, <<>>)
     ELSE IF Len(request.authorization_value) > kMaxAuthSize
       THEN Reply(w, NV_RESULT_INVALID_PARAMETER, NoResponse, <<>>)
     ELSE IF controls \ kSupportedControlsMask # {}
       THEN Reply(w, NV_RESULT_INVALID_PARAMETER, NoResponse, <<>>)
     ELSE IF /\ NV_CONTROL_PERSISTENT_WRITE_LOCK \in controls
             /\ NV_CONTROL_BOOT_WRITE_LOCK \in controls
       THEN Reply(w, NV_RESULT_INVALID_PARAMETER, NoResponse, <<>>)
     ELSE CreateSpaceCommit(w, request, controls, sc)

\* LoadSpaceRecord reporting missing data as a missing space.
LoadSpaceRecord_NotFoundAsMissing(w, index, fault) ==
  LET array_index == FindSpace(w.spaces, index)
      status == LoadSpace(w.space_blobs, index, fault)
  IN IF array_index = kMaxSpaces
       THEN [ok |-> FALSE, result |-> NV_RESULT_SPACE_DOES_NOT_EXIST,
             array_index |-> array_index, calls |-> <<>>]
     ELSE IF status # kSuccess
       THEN [ok |-> FALSE,
             result |-> IF status = kNotFound
                          THEN NV_RESULT_SPACE_DOES_NOT_EXIST
                          ELSE NV_RESULT_INTERNAL_ERROR,
             array_index |-> array_index,
             calls |-> <<Call("LoadSpace", index, status)>>]
     ELSE [ok |-> TRUE, result |-> NV_RESULT_SUCCESS,
           array_index |-> array_index,
           calls |-> <<Call("LoadSpace", index, status)>>]

(***************************************************************************)
(* NvramManager::LoadSpaceRecord.  fault: "ok" or "err" (LoadSpace fails). *)
(***************************************************************************)
LoadSpaceRecord(w, index, fault) ==
  LET array_index == FindSpace(w.spaces, index)
      status == LoadSpace(w.space_blobs, index, fault)
  IN IF array_index = kMaxSpaces
       THEN [ok |-> FALSE, result |-> NV_RESULT_SPACE_DOES_NOT_EXIST,
             array_index |-> array_index, calls |-> <<>>]
     ELSE IF status # kSuccess
       THEN [ok |-> FALSE, result |-> NV_RESULT_INTERNAL_ERROR,
             array_index |-> array_index,
             calls |-> <<Call("LoadSpace", index, status)>>]
     ELSE [ok |-> TRUE, result |-> NV_RESULT_SUCCESS,
           array_index |-> array_index,
           calls |-> <<Call("LoadSpace", index, status)>>]

(***************************************************************************)
(* NvramManager::GetSpaceInfo, after Initialize, with a response whose     *)
(* fields have their defaults.  fault: "ok", "err" (LoadSpace fails) or    *)
(* "alloc" (GetControlsVector fails).                                      *)
(***************************************************************************)
kFlagWriteLocked == "kFlagWriteLocked"

\* GetSpaceInfo reporting the stored flag whatever the controls are.
GetSpaceInfoBody_FlagWithoutControl(w, index, fault) ==
  LET rec == LoadSpaceRecord(w, index, fault)
      persistent == w.space_blobs[index]
      transient == w.spaces[rec.array_index + 1]
  IN IF ~rec.ok /\ rec.calls = <<>>
       THEN Reply(w, rec.result, NoResponse, rec.calls)
     ELSE IF ~rec.ok
       THEN [Fail(w, rec.calls, "load_space") EXCEPT !.result = rec.result]
     ELSE IF fault = "alloc" /\ persistent.controls # {}
       THEN Fail(w, rec.calls, "alloc")
     ELSE Reply(w, NV_RESULT_SUCCESS,
                [size |-> persistent.contents.size,
                 controls |-> GetControlsVector(persistent),
                 read_locked |->
                   IF HasControl(persistent, NV_CONTROL_BOOT_READ_LOCK)
                     THEN transient.read_locked ELSE FALSE,
                 write_locked |->
                   kFlagWriteLocked \in persistent.flags],
                rec.calls)

GetSpaceInfoBody(w, index, fault) ==
  LET rec == LoadSpaceRecord(w, index, fault)
      persistent == w.space_blobs[index]
      transient == w.spaces[rec.array_index + 1]
  IN IF ~rec.ok /\ rec.calls = <<>>
       THEN Reply(w, rec.result, NoResponse, rec.calls)
     ELSE IF ~rec.ok
       THEN [Fail(w, rec.calls, "load_space") EXCEPT !.result = rec.result]
     ELSE IF fault = "alloc" /\ persistent.controls # {}
       THEN Fail(w, rec.calls, "alloc")
     ELSE Reply(w, NV_RESULT_SUCCESS,
                [size |-> persistent.contents.size,
                 controls |-> GetControlsVector(persistent),
                 read_locked |->
                   IF HasControl(persistent, NV_CONTROL_BOOT_READ_LOCK)
                     THEN transient.read_locked ELSE FALSE,
                 write_locked |->
                   IF HasControl(persistent, NV_CONTROL_PERSISTENT_WRITE_LOCK)
                     THEN kFlagWriteLocked \in persistent.flags
                   ELSE IF HasControl(persistent, NV_CONTROL_BOOT_WRITE_LOCK)
                     THEN transient.write_locked
                   ELSE FALSE],
                rec.calls)

(***************************************************************************)
(* NvramManager::DisableCreate, after Initialize.                          *)
(***************************************************************************)
DisableScenarios ==
  {"none", "alloc_header", "store_header", "crash_before_header",
   "crash_after_header"}

DisableCreateBody(w, sc) ==
  LET w1 == [w EXCEPT !.disable_create = TRUE]
      wh == WriteHeader(w1, NoIndex,
                        IF sc = "alloc_header" THEN "alloc"
                        ELSE IF sc = "store_header" THEN "err" ELSE "ok")
  IN IF sc = "crash_before_header" THEN Crash(w1, <<>>)
     ELSE IF sc = "crash_after_header" /\ wh.result = NV_RESULT_SUCCESS
       THEN Crash(wh.w, wh.calls)
     ELSE IF wh.result # NV_RESULT_SUCCESS
       THEN Fail(wh.w, wh.calls,
                 IF wh.calls = <<>> THEN "alloc" ELSE "store_header")
     ELSE Reply(wh.w, wh.result, NoResponse, wh.calls)

(***************************************************************************)
(* The requests the clients of the model issue.                            *)
(***************************************************************************)
LongAuth == [k \in 1..(kMaxAuthSize + 1) |-> 0]

\* The parameters of the plain request of the tests: 16 bytes, no controls.
PlainParams == [size |-> 16, controls |-> <<>>, authorization_value |-> <<>>]

\* The parameters of the test CreateSpace_Success, with an authorization
\* value and the largest size.
TestParams ==
  [size |-> kMaxSpaceSize,
   controls |-> <<NV_CONTROL_BOOT_WRITE_LOCK, NV_CONTROL_BOOT_READ_LOCK,
                  NV_CONTROL_WRITE_AUTHORIZATION,
                  NV_CONTROL_READ_AUTHORIZATION, NV_CONTROL_WRITE_EXTEND>>,
   authorization_value |-> <<7>>]

\* Parameters that take CreateSpace through each of its checks.
OtherParams ==
  { [size |-> 16, controls |-> <<NV_CONTROL_PERSISTENT_WRITE_LOCK>>,
     authorization_value |-> <<7>>],
    [size |-> kMaxSpaceSize + 1, controls |-> <<>>,
     authorization_value |-> <<>>],
    [size |-> 16, controls |-> <<>>, authorization_value |-> LongAuth],
    [size |-> 16, controls |-> <<NV_CONTROL_BOOT_WRITE_LOCK, 17>>,
     authorization_value |-> <<>>],
    [size |-> 16,
     controls |-> <<NV_CONTROL_BOOT_WRITE_LOCK,
                    NV_CONTROL_PERSISTENT_WRITE_LOCK>>,
     authorization_value |-> <<>>],
    [size |-> 16, controls |-> <<kShiftWidth>>, authorization_value |-> <<>>],
    [size |-> 16, controls |-> <<kShiftWidth, NV_CONTROL_BOOT_WRITE_LOCK>>,
     authorization_value |-> <<>>],
    [size |-> 16, controls |-> <<kShiftWidth + NV_CONTROL_WRITE_AUTHORIZATION>>,
     authorization_value |-> <<7>>],
    [size |-> kMaxSpaceSize + 1,
     controls |-> <<NV_CONTROL_BOOT_WRITE_LOCK,
                    NV_CONTROL_PERSISTENT_WRITE_LOCK>>,
     authorization_value |-> LongAuth] }

CreateRequest(i, p) ==
  [index |-> i, size |-> p.size, controls |-> p.controls,
   authorization_value |-> p.authorization_value]

(***************************************************************************)
(* A run exercises one of two things, so that the model stays small:       *)
(*  "faults":   storage errors, allocation failures and losses of power,   *)
(*              with the test's request for index 1 and the plain request  *)
(*              for the other indices;                                     *)
(*  "requests": every request above for index 1 and the plain request for  *)
(*              the other indices, with storage and allocation that do not *)
(*              fail.                                                      *)
(***************************************************************************)
Profiles == {"faults", "requests"}

CreateRequestsOf(pr) ==
  { CreateRequest(i, PlainParams) : i \in Indices \ {1} } \cup
  { CreateRequest(1, TestParams) } \cup
  (IF pr = "requests"
     THEN { CreateRequest(1, p) : p \in OtherParams \cup {PlainParams} }
     ELSE {})

InitFaultsOf(pr) == IF pr = "faults" THEN InitFaults ELSE {NoInitFault}

\* The faults a handler can meet, out of those it has a case for.
FaultsOf(pr, faults) == IF pr = "faults" THEN faults ELSE {"ok"}

ScenariosOf(pr, scenarios) == IF pr = "faults" THEN scenarios ELSE {"none"}

(***************************************************************************)
(* A request from start to end: Initialize, then the handler proper.       *)
(***************************************************************************)
\* A manager as its constructor leaves it, over the given storage.
Constructed(w) ==
  [w EXCEPT !.initialized = FALSE, !.disable_create = FALSE, !.spaces = <<>>]

\* The spaces_ array has not been overrun.
InBounds == num_spaces_ <= kMaxSpaces

\* What Initialize can return from w, over the faults it can meet.
InitializeOutcomes(w) ==
  { Initialize(w, f) :
      f \in IF w.initialized THEN {NoInitFault} ELSE InitFaultsOf(profile) }

InitOutcome(init) ==
  IF ~init.ran THEN "skipped" ELSE IF init.ok THEN "ok" ELSE "failed"

\* The variables after a request: init is what Initialize returned, reply
\* what the handler returned (not used when Initialize failed).
Complete(op, request, init, reply) ==
  LET r == IF init.ok THEN reply ELSE Fail(init.w, <<>>, "initialize")
      after == IF r.crashed THEN Constructed(r.w) ELSE r.w
  IN /\ initialized_' = after.initialized
     /\ disable_create_' = after.disable_create
     /\ spaces_' = after.spaces
     /\ header' = after.header
     /\ space_blobs' = after.space_blobs
     /\ last' = [op |-> op, request |-> request, result |-> r.result,
                 response |-> r.response, init |-> InitOutcome(init),
                 init_calls |-> init.calls, calls |-> r.calls,
                 failure |-> r.failure, crashed |-> r.crashed,
                 before |-> NoBefore]
     /\ UNCHANGED <<shift_wraps, profile>>

GetInfo ==
  /\ InBounds
  /\ \E init \in InitializeOutcomes(World) :
       \E reply \in { GetInfoBody(init.w, fault) : fault \in FaultsOf(profile, {"ok", "alloc"}) } :
         Complete("GetInfo", NoRequest, init, reply)

CreateSpace ==
  /\ InBounds
  /\ \E init \in InitializeOutcomes(World), request \in CreateRequestsOf(profile) :
       \E reply \in { CreateSpaceBody(init.w, request, sc, shift_wraps) :
                        sc \in ScenariosOf(profile, CreateScenarios) } :
         Complete("CreateSpace", request, init, reply)

GetSpaceInfo ==
  /\ InBounds
  /\ \E init \in InitializeOutcomes(World), index \in Indices :
       \E reply \in { GetSpaceInfoBody(init.w, index, fault) :
                        fault \in FaultsOf(profile, {"ok", "err", "alloc"}) } :
         Complete("GetSpaceInfo", [NoRequest EXCEPT !.index = index], init,
                  reply)

DisableCreate ==
  /\ InBounds
  /\ \E init \in InitializeOutcomes(World) :
       \E reply \in { DisableCreateBody(init.w, sc) :
                        sc \in ScenariosOf(profile, DisableScenarios) } :
         Complete("DisableCreate", NoRequest, init, reply)

\* The device restarts: a new NvramManager over the same storage.
Reboot ==
  /\ initialized_' = FALSE
  /\ disable_create_' = FALSE
  /\ spaces_' = <<>>
  /\ last' = [op |-> "Reboot", request |-> NoRequest, result |-> "NONE",
              response |-> NoResponse, init |-> "skipped",
              init_calls |-> <<>>, calls |-> <<>>, failure |-> "none",
              crashed |-> FALSE,
              before |-> [op |-> last.op, index |-> last.request.index,
                          result |-> last.result, failure |-> last.failure]]
  /\ UNCHANGED <<header, space_blobs, shift_wraps, profile>>

(***************************************************************************)
(* The storage a first manager can find.  Besides the empty storage of a   *)
(* fresh device, the tests set up storage that other parts of the system   *)
(* leave behind: a header of a newer version, and a header whose           *)
(* provisional index is no longer allocated while its blob is still there  *)
(* (a deletion that was interrupted after its header write).               *)
(***************************************************************************)
\* A blob as the tests store it: contents of ten bytes, nothing else set.
StoredSpace ==
  [present |-> TRUE, flags |-> {}, controls |-> {},
   authorization_value |-> <<>>, contents |-> [size |-> 10, byte |-> 0]]

FreshStorage ==
  [header |-> NoHeader, space_blobs |-> [i \in Indices |-> NoSpace]]

\* Init_NewerStorageVersion: space 1 under a header of version kVersion + 1.
NewerVersionStorage ==
  [header |-> [present |-> TRUE, version |-> kVersion + 1,
               disable_create |-> FALSE, allocated_indices |-> <<1>>,
               provisional_index |-> NoIndex],
   space_blobs |-> [i \in Indices |-> IF i = 1 THEN StoredSpace ELSE NoSpace]]

\* Init_SpacesPresent, with the blob of the provisional index in storage:
\* space 1 allocated, MaxIndex provisional and not allocated.
HalfDeletedStorage ==
  [header |-> [present |-> TRUE, version |-> kVersion,
               disable_create |-> FALSE, allocated_indices |-> <<1>>,
               provisional_index |-> SomeIndex(MaxIndex)],
   space_blobs |-> [i \in Indices |->
                     IF i \in {1, MaxIndex} THEN StoredSpace ELSE NoSpace]]

\* A header written by a build with a larger kMaxSpaces: one index more
\* than this build supports, the last of them provisional.
ExcessSpacesStorage ==
  [header |-> [present |-> TRUE, version |-> kVersion,
               disable_create |-> FALSE,
               allocated_indices |-> [k \in 1..(kMaxSpaces + 1) |-> k],
               provisional_index |-> SomeIndex(kMaxSpaces + 1)],
   space_blobs |-> [i \in Indices |->
                     IF i <= kMaxSpaces + 1 THEN StoredSpace ELSE NoSpace]]

\* Spaces that a client has locked for writing: space 1 with a persistent
\* write lock that is set, space 2 with a boot write lock and the flag of a
\* persistent one.
LockedSpacesStorage ==
  [header |-> [present |-> TRUE, version |-> kVersion,
               disable_create |-> FALSE, allocated_indices |-> <<1, 2>>,
               provisional_index |-> NoIndex],
   space_blobs |->
     [i \in Indices |->
        IF i = 1
          THEN [StoredSpace EXCEPT
                  !.controls = {NV_CONTROL_PERSISTENT_WRITE_LOCK,
                                NV_CONTROL_BOOT_READ_LOCK},
                  !.flags = {kFlagWriteLocked}]
        ELSE IF i = 2
          THEN [StoredSpace EXCEPT
                  !.controls = {NV_CONTROL_BOOT_WRITE_LOCK},
                  !.flags = {kFlagWriteLocked}]
        ELSE NoSpace]]

\* The half-deleted space on a device whose creation of spaces has been
\* disabled.
DisabledHalfDeletedStorage ==
  [HalfDeletedStorage EXCEPT !.header.disable_create = TRUE]

\* Storage that recovery has to deal with goes with the runs that inject
\* faults, the locked spaces with the runs that do not.
InitialStoragesOf(pr) ==
  IF pr = "faults"
    THEN {FreshStorage, NewerVersionStorage, HalfDeletedStorage,
          ExcessSpacesStorage, DisabledHalfDeletedStorage}
    ELSE {FreshStorage, LockedSpacesStorage}

\* A constructed manager over one of these storages.
Init ==
  /\ initialized_ = FALSE
  /\ disable_create_ = FALSE
  /\ spaces_ = <<>>
  /\ profile \in Profiles
  /\ \E storage \in InitialStoragesOf(profile) :
       /\ header = storage.header
       /\ space_blobs = storage.space_blobs
  \* Only the "requests" profile issues a control of 32 or more.
  /\ shift_wraps \in (IF profile = "requests" THEN BOOLEAN ELSE {TRUE})
  /\ last = [op |-> "None", request |-> NoRequest, result |-> "NONE",
             response |-> NoResponse, init |-> "skipped",
             init_calls |-> <<>>, calls |-> <<>>, failure |-> "none",
             crashed |-> FALSE, before |-> NoBefore]

Next == GetInfo \/ CreateSpace \/ GetSpaceInfo \/ DisableCreate \/ Reboot

Spec == Init /\ [][Next]_vars

(***************************************************************************)
(* Vocabulary of the properties.                                           *)
(***************************************************************************)
\* The indices in the SpaceTable, and those the stored header allocates
\* (none when there is no header).
TableIndexSet == SeqRange(TableIndices(spaces_))
HeaderIndexSet == SeqRange(header.allocated_indices)

\* GetInfo and GetSpaceInfo change nothing after Initialize, so the state
\* after one of them whose Initialize ran and returned true is the state
\* Initialize left.
Queries == {"GetInfo", "GetSpaceInfo"}
InitializeCompleted == last.op \in Queries /\ last.init = "ok"

Succeeded(op) == last.op = op /\ last.result = NV_RESULT_SUCCESS

HasCall(calls, fn, status) ==
  \E k \in 1..Len(calls) : calls[k].fn = fn /\ calls[k].status = status

\* What GetInfo lists on the manager as it is.
GetInfoSpaceList == SeqRange(GetInfoBody(World, "ok").response.space_list)

\* Initialize loaded a provisional index and did not get its header stored.
ClearingWriteFailed(calls) ==
  /\ \E k \in 1..Len(calls) : calls[k].fn = "LoadSpace"
  /\ ~HasCall(calls, "StoreHeader", kSuccess)

(***************************************************************************)
(* C1, as stated: after Initialize completes successfully and after every  *)
(* CreateSpace or DisableCreate that returns SUCCESS, the set of indices   *)
(* of the stored header equals the set of indices of the SpaceTable.       *)
(* Violated: Initialize leaves out a provisional index whose blob is       *)
(* absent and returns true also when its header write fails.               *)
(***************************************************************************)
C1_HeaderTableAgreement_AsStated ==
  (InitializeCompleted \/ Succeeded("CreateSpace") \/ Succeeded("DisableCreate"))
    => HeaderIndexSet = TableIndexSet

(***************************************************************************)
(* C1, amended: the same, for an Initialize that completes successfully    *)
(* with its header write, when it makes one, stored.                       *)
(***************************************************************************)
C1_HeaderTableAgreement ==
  (\/ InitializeCompleted /\ ~ClearingWriteFailed(last.init_calls)
   \/ Succeeded("CreateSpace")
   \/ Succeeded("DisableCreate"))
    => HeaderIndexSet = TableIndexSet

\* C1 witness: Initialize recovered a non-empty table and stored the header.
C1_Witness ==
  /\ InitializeCompleted
  /\ HasCall(last.init_calls, "StoreHeader", kSuccess)
  /\ TableIndexSet # {}
  /\ HeaderIndexSet = TableIndexSet

(***************************************************************************)
(* C2, as stated: when power is lost during CreateSpace(i) or              *)
(* DisableCreate, at any point between the handler's storage writes, the   *)
(* next manager, once initialized, sees the operation applied or not       *)
(* applied: for CreateSpace, i is absent from the SpaceTable or is in it   *)
(* with its blob present; for DisableCreate, the manager has creation      *)
(* disabled exactly when the stored header says so.                        *)
(* Violated: a storage error on load_space(i) makes Initialize keep i      *)
(* although the blob was never written.                                    *)
(***************************************************************************)
PowerLostDuring(op) == last.crashed /\ last.op = op

AppliedOrNot(i) ==
  \/ i \notin SeqRange(TableIndices(spaces_'))
  \/ space_blobs'[i].present

C2_CrashConsistency_AsStated ==
  [][ /\ (PowerLostDuring("CreateSpace") /\ last'.op \in Queries
            /\ last'.init = "ok"
          => AppliedOrNot(last.request.index))
      /\ (PowerLostDuring("DisableCreate") /\ last'.op \in Queries
            /\ last'.init = "ok"
          => disable_create_' = header'.disable_create) ]_vars

(***************************************************************************)
(* C2, amended: the same, provided load_space of the provisional index     *)
(* reports no storage error during that initialization.                    *)
(***************************************************************************)
C2_CrashConsistency ==
  [][ /\ (PowerLostDuring("CreateSpace") /\ last'.op \in Queries
            /\ last'.init = "ok"
            /\ ~HasCall(last'.init_calls, "LoadSpace", kStorageError)
          => AppliedOrNot(last.request.index))
      /\ (PowerLostDuring("DisableCreate") /\ last'.op \in Queries
            /\ last'.init = "ok"
          => disable_create_' = header'.disable_create) ]_vars

\* C2 witness: power was lost between the header write and the space write
\* of CreateSpace(i); the header names i, the blob is missing.
C2_Witness ==
  /\ PowerLostDuring("CreateSpace")
  /\ last.calls = <<Call("StoreHeader", 0, kSuccess)>>
  /\ last.request.index \in HeaderIndexSet
  /\ ~space_blobs[last.request.index].present
  /\ ~initialized_

(***************************************************************************)
(* C3: the number of SpaceTable entries never exceeds kMaxSpaces.          *)
(* Violated: an Initialize that fails after its loop leaves the entries it *)
(* appended, and the next attempt appends them again.                      *)
(***************************************************************************)
C3_BoundedTable == num_spaces_ <= kMaxSpaces

(***************************************************************************)
(* C4: after a DisableCreate that returned SUCCESS the stored header       *)
(* carries the flag, no later header loses it, and every CreateSpace over  *)
(* such a header, on the same manager or on a later one, returns           *)
(* OPERATION_DISABLED (INTERNAL_ERROR when its Initialize fails, as for    *)
(* every request).                                                         *)
(***************************************************************************)
C4_IrreversibleDisable ==
  /\ [](Succeeded("DisableCreate") => header.present /\ header.disable_create)
  /\ [][header.disable_create => header'.disable_create]_vars
  /\ [][ header.disable_create /\ last'.op = "CreateSpace"
         => last'.result = IF last'.init = "failed"
                             THEN NV_RESULT_INTERNAL_ERROR
                             ELSE NV_RESULT_OPERATION_DISABLED ]_vars

\* C4 witness: a manager started after the DisableCreate refuses a create.
C4_Witness ==
  /\ last.op = "CreateSpace"
  /\ last.init = "ok"
  /\ last.result = NV_RESULT_OPERATION_DISABLED
  /\ header.disable_create

(***************************************************************************)
(* C5: once CreateSpace(i) has returned SUCCESS, the header allocates i    *)
(* and the blob of i is in storage (with i still the provisional index);   *)
(* that stays so whatever happens later, restarts included; and every      *)
(* initialized manager over such storage lists i in GetInfo.               *)
(***************************************************************************)
Committed(hdr, blobs, i) ==
  hdr.present /\ i \in SeqRange(hdr.allocated_indices) /\ blobs[i].present

C5_DurableCreate ==
  /\ [](Succeeded("CreateSpace") =>
          /\ Committed(header, space_blobs, last.request.index)
          /\ header.provisional_index = SomeIndex(last.request.index))
  /\ [][\A i \in Indices : Committed(header, space_blobs, i)
                             => Committed(header', space_blobs', i)]_vars
  /\ [](\A i \in Indices :
          Committed(header, space_blobs, i) /\ initialized_
            => i \in GetInfoSpaceList)

\* C5 witness: a manager started after the create lists the space while the
\* stored header still names it as provisional.
C5_Witness ==
  /\ InitializeCompleted
  /\ header.provisional_index.valid
  /\ Committed(header, space_blobs, header.provisional_index.value)
  /\ header.provisional_index.value \in GetInfoSpaceList

(***************************************************************************)
(* C6: when CreateSpace(i) returned INTERNAL_ERROR because store_space(i)  *)
(* failed after the header write, the manager constructed next, meeting no *)
(* storage error, initializes; GetInfo does not list i and GetSpaceInfo(i) *)
(* returns SPACE_DOES_NOT_EXIST.                                           *)
(* Violated: Initialize calls DeleteSpace(i) for the blob that was never   *)
(* written and fails when the storage answers kNotFound.                   *)
(***************************************************************************)
SpaceWriteFailedBeforeReboot(i) ==
  /\ last.op = "Reboot"
  /\ last.before = [op |-> "CreateSpace", index |-> i,
                    result |-> NV_RESULT_INTERNAL_ERROR,
                    failure |-> "store_space"]

NoStorageError(calls) ==
  \A k \in 1..Len(calls) : calls[k].status # kStorageError

C6_SpaceWriteFailureRepaired ==
  [][\A i \in Indices :
       /\ SpaceWriteFailedBeforeReboot(i)
       /\ last'.op \in Queries
       /\ NoStorageError(last'.init_calls \o last'.calls)
       => /\ last'.init = "ok"
          /\ i \notin SeqRange(TableIndices(spaces_'))
          /\ (last'.op = "GetInfo" /\ last'.result = NV_RESULT_SUCCESS
                => i \notin SeqRange(last'.response.space_list))
          /\ (last'.op = "GetSpaceInfo" /\ last'.request.index = i
                => last'.result = NV_RESULT_SPACE_DOES_NOT_EXIST)]_vars

(***************************************************************************)
(* C7: a CreateSpace that returns a result other than SUCCESS leaves the   *)
(* SpaceTable, entries and count, as it was before the call (stated for a  *)
(* manager that was initialized before the call, so that the table before  *)
(* the call is the one the handler started from).                          *)
(* Violated: the two allocation failures after the tentative append return *)
(* without taking the entry back.                                          *)
(***************************************************************************)
C7_RollbackOnFailedCreate ==
  [][ /\ last'.op = "CreateSpace"
      /\ last'.init = "skipped"
      /\ ~last'.crashed
      /\ last'.result # NV_RESULT_SUCCESS
      => spaces_' = spaces_ ]_vars

(***************************************************************************)
(* C8: when store_header fails during CreateSpace(i), the call returns     *)
(* INTERNAL_ERROR, store_space is not called, no blob of i is written, the *)
(* handler leaves the stored header and the table as they were, and the    *)
(* same request repeated without the error returns SUCCESS with i then     *)
(* listed by GetInfo.                                                      *)
(***************************************************************************)
HeaderWriteFailed(l) ==
  l.op = "CreateSpace" /\ l.failure = "store_header"

C8_HeaderWriteFailureStops ==
  /\ [][ HeaderWriteFailed(last') =>
           /\ last'.result = NV_RESULT_INTERNAL_ERROR
           /\ last'.calls = <<Call("StoreHeader", 0, kStorageError)>>
           /\ ~space_blobs'[last'.request.index].present
           /\ last'.request.index \notin SeqRange(TableIndices(spaces_'))
           /\ (last'.init = "skipped" =>
                 /\ header' = header
                 /\ space_blobs' = space_blobs
                 /\ spaces_' = spaces_) ]_vars
  /\ [][ /\ HeaderWriteFailed(last)
         /\ last'.op = "CreateSpace"
         /\ last'.request = last.request
         /\ last'.failure = "none"
         /\ ~last'.crashed
         => /\ last'.result = NV_RESULT_SUCCESS
            /\ last.request.index
                 \in SeqRange(GetInfoBody(World, "ok").response.space_list)'
            /\ space_blobs'[last.request.index].present ]_vars

\* C8 witness: a CreateSpace on an initialized manager whose header write
\* failed, with a header already in storage that the failure left alone.
C8_Witness ==
  /\ HeaderWriteFailed(last)
  /\ last.init = "skipped"
  /\ header.present
  /\ last.request.index \notin HeaderIndexSet

(***************************************************************************)
(* C9: CreateSpace evaluates its checks in the order create-disabled       *)
(* (OPERATION_DISABLED), index in the SpaceTable (SPACE_ALREADY_EXISTS),   *)
(* table full, size over kMaxSpaceSize, authorization over kMaxAuthSize,   *)
(* unsupported control, both write-lock controls (INVALID_PARAMETER); the  *)
(* result is that of the first check violated and a rejected request       *)
(* writes nothing to storage.                                              *)
(* Violated through C10: a control of 32 is unsupported and is accepted.   *)
(***************************************************************************)
SupportedControls ==
  { NV_CONTROL_PERSISTENT_WRITE_LOCK, NV_CONTROL_BOOT_WRITE_LOCK,
    NV_CONTROL_BOOT_READ_LOCK, NV_CONTROL_WRITE_AUTHORIZATION,
    NV_CONTROL_READ_AUTHORIZATION, NV_CONTROL_WRITE_EXTEND }

HasUnsupportedControl(request) ==
  SeqRange(request.controls) \ SupportedControls # {}

\* The result the stated order of checks gives; "ACCEPTED" when none fails.
ExpectedCreateResult(request) ==
  IF disable_create_ THEN NV_RESULT_OPERATION_DISABLED
  ELSE IF request.index \in TableIndexSet THEN NV_RESULT_SPACE_ALREADY_EXISTS
  ELSE IF num_spaces_ >= kMaxSpaces THEN NV_RESULT_INVALID_PARAMETER
  ELSE IF request.size > kMaxSpaceSize THEN NV_RESULT_INVALID_PARAMETER
  ELSE IF Len(request.authorization_value) > kMaxAuthSize
    THEN NV_RESULT_INVALID_PARAMETER
  ELSE IF HasUnsupportedControl(request) THEN NV_RESULT_INVALID_PARAMETER
  ELSE IF {NV_CONTROL_PERSISTENT_WRITE_LOCK, NV_CONTROL_BOOT_WRITE_LOCK}
            \subseteq SeqRange(request.controls)
    THEN NV_RESULT_INVALID_PARAMETER
  ELSE "ACCEPTED"

C9_PreconditionOrder ==
  [][ /\ last'.op = "CreateSpace"
      /\ last'.init = "skipped"
      /\ ExpectedCreateResult(last'.request) # "ACCEPTED"
      => /\ last'.result = ExpectedCreateResult(last'.request)
         /\ last'.calls = <<>>
         /\ header' = header
         /\ space_blobs' = space_blobs ]_vars

(***************************************************************************)
(* C10: a CreateSpace whose request carries a control that is not one of   *)
(* 0..5, values of 32 and above included, does not succeed and creates no  *)
(* space.                                                                  *)
(* Violated: 1 << 32 is either 1 << 0 or 0, and both pass the mask.        *)
(***************************************************************************)
C10_UnsupportedControlsRejected ==
  last.op = "CreateSpace" /\ HasUnsupportedControl(last.request)
    => /\ last.result # NV_RESULT_SUCCESS
       /\ ~space_blobs[last.request.index].present

(***************************************************************************)
(* C11: a request whose Initialize fails leaves the manager uninitialized, *)
(* the next request runs Initialize again, and when that one succeeds the  *)
(* SpaceTable and flags are those a newly constructed manager gets from    *)
(* the same storage with the same answers of the storage.                  *)
(* Violated: the entries a failed attempt appended are still in the table  *)
(* when the next attempt appends its own.                                  *)
(***************************************************************************)
\* What a newly constructed manager over the storage as it is can make of
\* Initialize when the storage answers with the given calls.
FreshInitializations(calls) ==
  { r \in { Initialize(Constructed(World), f) : f \in InitFaults } :
      r.ok /\ r.calls = calls }

C11_InitializationRetry ==
  [][ /\ (last'.init = "failed" => ~initialized_')
      /\ (~initialized_ /\ last'.op # "Reboot" => last'.init # "skipped")
      /\ (last.init = "failed" /\ last'.op \in Queries /\ last'.init = "ok"
          => \E r \in FreshInitializations(last'.init_calls) :
               /\ spaces_' = r.w.spaces
               /\ disable_create_' = r.w.disable_create
               /\ initialized_' = r.w.initialized) ]_vars

(***************************************************************************)
(* C12: over a stored header of a version above kVersion every request     *)
(* (GetInfo, CreateSpace, GetSpaceInfo, DisableCreate) returns             *)
(* INTERNAL_ERROR, the manager stays uninitialized with an empty           *)
(* SpaceTable, and the header and the space blobs in storage stay as they  *)
(* are.                                                                    *)
(***************************************************************************)
Requests == {"GetInfo", "CreateSpace", "GetSpaceInfo", "DisableCreate"}

NewerHeader == header.present /\ header.version > kVersion

C12_ForwardVersionRefusal ==
  [][ NewerHeader /\ last'.op \in Requests
      => /\ last'.result = NV_RESULT_INTERNAL_ERROR
         /\ last'.init = "failed"
         /\ ~initialized_'
         /\ spaces_' = <<>>
         /\ ~disable_create_'
         /\ last'.calls = <<>>
         /\ \A k \in 1..Len(last'.init_calls) :
              last'.init_calls[k].fn = "LoadHeader"
         /\ header' = header
         /\ space_blobs' = space_blobs ]_vars

\* C12 witness: a CreateSpace refused over the newer header, which loaded.
C12_Witness ==
  /\ NewerHeader
  /\ last.op = "CreateSpace"
  /\ last.result = NV_RESULT_INTERNAL_ERROR
  /\ last.init_calls = <<Call("LoadHeader", 0, kSuccess)>>

(***************************************************************************)
(* C13: when the stored header names a provisional index p that it does    *)
(* not allocate and the blob of p is in storage, Initialize on a newly     *)
(* constructed manager, meeting no storage error, succeeds, deletes the    *)
(* blob of p and builds the SpaceTable from exactly allocated_indices;     *)
(* GetSpaceInfo(p) then returns SPACE_DOES_NOT_EXIST.                      *)
(***************************************************************************)
HalfDeleted(p) ==
  /\ header.present
  /\ header.version <= kVersion
  /\ header.provisional_index = SomeIndex(p)
  /\ p \notin SeqRange(header.allocated_indices)
  /\ space_blobs[p].present

NewlyConstructed == ~initialized_ /\ spaces_ = <<>> /\ ~disable_create_

C13_HalfDeletedRecovery ==
  [][\A p \in Indices :
       /\ HalfDeleted(p)
       /\ NewlyConstructed
       /\ last'.op \in Queries
       /\ NoStorageError(last'.init_calls)
       => /\ last'.init = "ok"
          /\ HasCall(last'.init_calls, "DeleteSpace", kSuccess)
          /\ ~space_blobs'[p].present
          /\ \A i \in Indices \ {p} : space_blobs'[i] = space_blobs[i]
          /\ TableIndices(spaces_') = header.allocated_indices
          /\ (last'.op = "GetSpaceInfo" /\ last'.request.index = p
                => last'.result = NV_RESULT_SPACE_DOES_NOT_EXIST)]_vars

\* C13 witness: GetSpaceInfo(p) right after the recovery that deleted the
\* blob of p, with the allocated space still listed.
C13_Witness ==
  /\ last.op = "GetSpaceInfo"
  /\ last.init = "ok"
  /\ last.init_calls[Len(last.init_calls)].fn \in {"DeleteSpace", "StoreHeader"}
  /\ HasCall(last.init_calls, "DeleteSpace", kSuccess)
  /\ HasCall(last.init_calls, "LoadSpace", kSuccess)
  /\ last.result = NV_RESULT_SPACE_DOES_NOT_EXIST
  /\ ~space_blobs[last.request.index].present
  /\ TableIndexSet # {}

(***************************************************************************)
(* C14: on an initialized manager GetSpaceInfo(i) returns                  *)
(* SPACE_DOES_NOT_EXIST exactly when i is not in the SpaceTable; for i in  *)
(* the SpaceTable it calls load_space(i) once and returns INTERNAL_ERROR   *)
(* when that reports kNotFound or kStorageError and SUCCESS otherwise      *)
(* (INTERNAL_ERROR when the controls vector cannot be allocated, as for    *)
(* every allocation failure).  The call changes neither the manager nor    *)
(* the storage, so a failure on one index leaves the requests on the       *)
(* other indices as they were.                                             *)
(***************************************************************************)
GetSpaceInfoOnInitialized(l) ==
  l.op = "GetSpaceInfo" /\ l.init = "skipped"

C14_GetSpaceInfoErrorMapping ==
  /\ [][ GetSpaceInfoOnInitialized(last') =>
           LET i == last'.request.index
           IN /\ (last'.result = NV_RESULT_SPACE_DOES_NOT_EXIST
                    <=> i \notin TableIndexSet)
              /\ (i \notin TableIndexSet => last'.calls = <<>>)
              /\ (i \in TableIndexSet =>
                    /\ Len(last'.calls) = 1
                    /\ last'.calls[1].fn = "LoadSpace"
                    /\ last'.calls[1].index = i
                    /\ (last'.calls[1].status \in {kNotFound, kStorageError}
                          => last'.result = NV_RESULT_INTERNAL_ERROR)
                    /\ (last'.calls[1].status = kSuccess =>
                          last'.result = IF last'.failure = "alloc"
                                           THEN NV_RESULT_INTERNAL_ERROR
                                           ELSE NV_RESULT_SUCCESS))
              /\ UNCHANGED <<initialized_, disable_create_, spaces_,
                             header, space_blobs>> ]_vars
  /\ [][ /\ GetSpaceInfoOnInitialized(last)
         /\ last.result = NV_RESULT_INTERNAL_ERROR
         /\ GetSpaceInfoOnInitialized(last')
         /\ last'.request.index # last.request.index
         /\ last'.request.index \in TableIndexSet
         /\ space_blobs[last'.request.index].present
         /\ last'.failure = "none"
         => last'.result = NV_RESULT_SUCCESS ]_vars

\* C14 witness: GetSpaceInfo fails on an index of the table whose data is
\* missing, while another index of the table has its data.
C14_Witness ==
  /\ GetSpaceInfoOnInitialized(last)
  /\ last.result = NV_RESULT_INTERNAL_ERROR
  /\ last.calls = <<Call("LoadSpace", last.request.index, kNotFound)>>
  /\ \E j \in TableIndexSet \ {last.request.index} : space_blobs[j].present

(***************************************************************************)
(* C15: when load_header reports kNotFound, Initialize succeeds with an    *)
(* empty SpaceTable and creation enabled and writes nothing to storage;    *)
(* GetInfo then returns an empty space_list and GetSpaceInfo(i) returns    *)
(* SPACE_DOES_NOT_EXIST for every i.                                       *)
(***************************************************************************)
HeaderNotFound(l) ==
  Len(l.init_calls) >= 1 /\ l.init_calls[1] = Call("LoadHeader", 0, kNotFound)

C15_FreshDevice ==
  /\ [][ HeaderNotFound(last') /\ last'.op \in Queries =>
           /\ last'.init = "ok"
           /\ last'.init_calls = <<Call("LoadHeader", 0, kNotFound)>>
           /\ initialized_'
           /\ spaces_' = <<>>
           /\ ~disable_create_'
           /\ header' = header
           /\ space_blobs' = space_blobs
           /\ (last'.op = "GetInfo" /\ last'.failure = "none" =>
                 /\ last'.result = NV_RESULT_SUCCESS
                 /\ last'.response.space_list = <<>>)
           /\ (last'.op = "GetSpaceInfo" =>
                 /\ last'.result = NV_RESULT_SPACE_DOES_NOT_EXIST
                 /\ last'.calls = <<>>) ]_vars
  /\ [][ HeaderNotFound(last') /\ last'.op = "CreateSpace" =>
           /\ last'.init = "ok"
           /\ last'.result # NV_RESULT_OPERATION_DISABLED ]_vars

\* C15 witness: GetSpaceInfo on a device without a header.
C15_Witness ==
  /\ last.op = "GetSpaceInfo"
  /\ HeaderNotFound(last)
  /\ last.result = NV_RESULT_SPACE_DOES_NOT_EXIST
  /\ ~header.present
  /\ initialized_

(***************************************************************************)
(* C16: every successful GetInfo returns total_size = kMaxSpaces *         *)
(* kMaxSpaceSize, max_spaces = kMaxSpaces, space_list = the indices of the *)
(* SpaceTable in stored order, and available_size = (kMaxSpaces - N) *     *)
(* kMaxSpaceSize with N the number of entries, so that                     *)
(* 0 <= available_size <= total_size and                                   *)
(* available_size + N * kMaxSpaceSize = total_size.                        *)
(* Violated through C3: with N above kMaxSpaces the unsigned difference    *)
(* wraps.                                                                  *)
(***************************************************************************)
C16_GetInfoAccounting ==
  Succeeded("GetInfo") =>
    /\ last.response.total_size = kMaxSpaces * kMaxSpaceSize
    /\ last.response.max_spaces = kMaxSpaces
    /\ last.response.space_list = TableIndices(spaces_)
    /\ last.response.available_size =
         (kMaxSpaces - num_spaces_) * kMaxSpaceSize
    /\ 0 <= last.response.available_size
    /\ last.response.available_size <= last.response.total_size
    /\ last.response.available_size + num_spaces_ * kMaxSpaceSize
         = last.response.total_size

(***************************************************************************)
(* C17: after CreateSpace(i, size, controls, auth) returned SUCCESS,       *)
(* GetSpaceInfo(i) into a fresh response returns SUCCESS with the          *)
(* requested size, a controls set equal to the requested controls set,     *)
(* read_locked = false and write_locked = false.                           *)
(* Violated through C10: a requested control of 32 is stored as control 0  *)
(* or as no control.                                                       *)
(***************************************************************************)
C17_CreateInspectRoundTrip ==
  [][ /\ Succeeded("CreateSpace")
      /\ last'.op = "GetSpaceInfo"
      /\ last'.request.index = last.request.index
      /\ last'.failure = "none"
      => /\ last'.result = NV_RESULT_SUCCESS
         /\ last'.response.size = last.request.size
         /\ SeqRange(last'.response.controls) = SeqRange(last.request.controls)
         /\ last'.response.read_locked = FALSE
         /\ last'.response.write_locked = FALSE ]_vars

(***************************************************************************)
(* C18: no index occurs twice in the SpaceTable, and no header in storage  *)
(* has the same index twice in allocated_indices.                          *)
(* Violated: a retried Initialize appends the indices a failed attempt     *)
(* left in the table, and the next header write stores them.               *)
(***************************************************************************)
NoDuplicates(s) ==
  \A j, k \in 1..Len(s) : j # k => s[j] # s[k]

C18_NoDuplicateIndices ==
  /\ NoDuplicates(TableIndices(spaces_))
  /\ NoDuplicates(header.allocated_indices)

(***************************************************************************)
(* C19: in every state after a successful Initialize, every index that the *)
(* stored header allocates and does not name as provisional has its blob   *)
(* in storage.                                                             *)
(* Violated: the entry that an allocation failure in CreateSpace leaves in *)
(* the table is written into the next header without any blob.             *)
(***************************************************************************)
C19_CommittedSpacesHaveBlobs ==
  initialized_ =>
    \A i \in Indices :
      /\ i \in SeqRange(header.allocated_indices)
      /\ header.provisional_index # SomeIndex(i)
      => space_blobs[i].present


(***************************************************************************)
(* C20: no space blob in storage has both NV_CONTROL_PERSISTENT_WRITE_LOCK *)
(* and NV_CONTROL_BOOT_WRITE_LOCK among its controls, and the controls of  *)
(* every space blob in storage are among the six supported controls.       *)
(* CreateSpace makes both checks on the mask it has computed, so they hold *)
(* of what it stores whatever the shift of a control of 32 produced.       *)
(***************************************************************************)
WriteLocks == {NV_CONTROL_PERSISTENT_WRITE_LOCK, NV_CONTROL_BOOT_WRITE_LOCK}

C20_WriteLocksExclusive ==
  \A i \in Indices :
    space_blobs[i].present =>
      /\ ~(WriteLocks \subseteq space_blobs[i].controls)
      /\ space_blobs[i].controls \subseteq kSupportedControlsMask

\* CreateSpace has stored a space with a write lock, for a request that
\* names the control 32 as well.
C20_Witness ==
  /\ Succeeded("CreateSpace")
  /\ kShiftWidth \in SeqRange(last.request.controls)
  /\ space_blobs[last.request.index].present
  /\ space_blobs[last.request.index].controls \cap WriteLocks # {}


(***************************************************************************)
(* C21: the space blob that CreateSpace stores has the authorization value *)
(* of the request when NV_CONTROL_WRITE_AUTHORIZATION or                   *)
(* NV_CONTROL_READ_AUTHORIZATION is among its controls and an empty one    *)
(* otherwise, no flags, and contents of the requested size, all zero.      *)
(***************************************************************************)
AuthorizationControls ==
  {NV_CONTROL_WRITE_AUTHORIZATION, NV_CONTROL_READ_AUTHORIZATION}

\* The request stored its space blob (whether or not it then returned).
StoredItsSpace(l) ==
  l.op = "CreateSpace" /\ HasCall(l.calls, "StoreSpace", kSuccess)

C21_AuthorizationStoredWhenNeeded ==
  [][ StoredItsSpace(last') =>
        LET request == last'.request
            space == space_blobs'[request.index]
        IN /\ space.present
           /\ space.authorization_value =
                IF space.controls \cap AuthorizationControls # {}
                  THEN request.authorization_value
                  ELSE <<>>
           /\ space.flags = {}
           /\ space.contents = [size |-> request.size, byte |-> 0] ]_vars

\* A request with an authorization value and no authorization control was
\* stored.
C21_Witness ==
  /\ StoredItsSpace(last)
  /\ last.request.authorization_value # <<>>
  /\ space_blobs[last.request.index].controls \cap AuthorizationControls = {}
  /\ space_blobs[last.request.index].authorization_value = <<>>


(***************************************************************************)
(* C22: an Initialize that gets as far as its loop calls DeleteSpace(p)    *)
(* if and only if the header's provisional index is p, p is not among the  *)
(* allocated indices, and LoadSpace(p) did not answer kNotFound.           *)
(* Violated: for an interrupted create (p allocated, blob absent) the loop *)
(* skips p without clearing delete_provisional_space, and DeleteSpace(p)   *)
(* is called for the blob that was never written.                          *)
(***************************************************************************)
\* Initialize ran on hdr and passed the checks of the header.
ReachedLoop(l, hdr) ==
  /\ l.init # "skipped"
  /\ HasCall(l.init_calls, "LoadHeader", kSuccess)
  /\ hdr.version <= kVersion
  /\ Len(hdr.allocated_indices) <= kMaxSpaces

CalledFor(calls, fn, index) ==
  \E k \in 1..Len(calls) : calls[k].fn = fn /\ calls[k].index = index

C22_DeletesOnlyHalfDeleted ==
  [][ ReachedLoop(last', header) =>
        \A p \in Indices :
          CalledFor(last'.init_calls, "DeleteSpace", p)
            <=> /\ header.provisional_index = SomeIndex(p)
                /\ p \notin SeqRange(header.allocated_indices)
                /\ ~HasCall(last'.init_calls, "LoadSpace", kNotFound) ]_vars


(***************************************************************************)
(* C23: a CreateSpace that calls StoreSpace(i) has before that stored a    *)
(* header that allocates i and names it provisional; and a request made    *)
(* over storage in which every index with a space blob is allocated by the *)
(* stored header leaves storage so.                                        *)
(***************************************************************************)
\* Every space blob in storage is allocated by the stored header.
HeaderCoversStorage(hdr, blobs) ==
  \A i \in Indices :
    blobs[i].present => hdr.present /\ i \in SeqRange(hdr.allocated_indices)

C23_HeaderBeforeSpace ==
  [][ /\ HeaderCoversStorage(header, space_blobs)
        => HeaderCoversStorage(header', space_blobs')
      /\ last'.op = "CreateSpace"
         /\ CalledFor(last'.calls, "StoreSpace", last'.request.index)
         => /\ Len(last'.calls) = 2
            /\ last'.calls[1] = Call("StoreHeader", 0, kSuccess)
            /\ last'.calls[2].fn = "StoreSpace"
            /\ header'.provisional_index = SomeIndex(last'.request.index)
            /\ last'.request.index \in SeqRange(header'.allocated_indices)
    ]_vars

\* CreateSpace has stored a second space, over a header that covers both.
C23_Witness ==
  /\ StoredItsSpace(last)
  /\ Cardinality({ i \in Indices : space_blobs[i].present }) = 2
  /\ HeaderCoversStorage(header, space_blobs)


(***************************************************************************)
(* C24, as stated: when Initialize's LoadSpace(p) for the provisional      *)
(* index p answers kStorageError and p is among the allocated indices of   *)
(* the header, Initialize succeeds and keeps p in the SpaceTable, and      *)
(* GetSpaceInfo for another index of the header, meeting no failure of its *)
(* own, succeeds.                                                          *)
(* Violated: another index of the header may be one that an earlier load   *)
(* error retained without a blob; GetSpaceInfo for it fails as it does     *)
(* without the load error on p.  And Initialize fails when the header      *)
(* allocates more than kMaxSpaces indices.                                 *)
(***************************************************************************)
\* Initialize ran on hdr and its load of the provisional index, which hdr
\* allocates, failed.
ProvisionalLoadFailed(l, hdr) ==
  /\ l.init # "skipped"
  /\ HasCall(l.init_calls, "LoadSpace", kStorageError)
  /\ hdr.provisional_index.value \in SeqRange(hdr.allocated_indices)

C24_ConservativeRetention_AsStated ==
  [][ ProvisionalLoadFailed(last', header) =>
        LET p == header.provisional_index.value
            i == last'.request.index
        IN /\ last'.init = "ok"
           /\ last'.op \in Queries => p \in SeqRange(TableIndices(spaces_'))
           /\ /\ last'.op = "GetSpaceInfo"
              /\ i # p
              /\ i \in SeqRange(header.allocated_indices)
              /\ NoStorageError(last'.calls)
              /\ last'.failure # "alloc"
              => last'.result = NV_RESULT_SUCCESS ]_vars


(***************************************************************************)
(* C24: when Initialize's LoadSpace(p) for the provisional index p answers *)
(* kStorageError, p is among the allocated indices of the header and the   *)
(* header allocates no more than kMaxSpaces indices, Initialize succeeds   *)
(* and keeps p in the SpaceTable, and GetSpaceInfo for another index of    *)
(* the header whose blob is in storage, meeting no failure of its own,     *)
(* succeeds.                                                               *)
(***************************************************************************)
C24_ConservativeRetention ==
  [][ ProvisionalLoadFailed(last', header) /\ ReachedLoop(last', header) =>
        LET p == header.provisional_index.value
            i == last'.request.index
        IN /\ last'.init = "ok"
           /\ last'.op \in Queries => p \in SeqRange(TableIndices(spaces_'))
           /\ /\ last'.op = "GetSpaceInfo"
              /\ i # p
              /\ i \in SeqRange(header.allocated_indices)
              /\ space_blobs[i].present
              /\ NoStorageError(last'.calls)
              /\ last'.failure # "alloc"
              => last'.result = NV_RESULT_SUCCESS ]_vars

\* GetSpaceInfo succeeded for an index other than the one whose load failed
\* in the Initialize of the same request, and that one is in the table.
C24_Witness ==
  /\ Succeeded("GetSpaceInfo")
  /\ \E k \in 1..Len(last.init_calls) :
       /\ last.init_calls[k] =
            Call("LoadSpace", last.init_calls[k].index, kStorageError)
       /\ last.init_calls[k].index # last.request.index
       /\ last.init_calls[k].index \in TableIndexSet


(***************************************************************************)
(* C25: an Initialize that loaded a header with a provisional index and    *)
(* got past the recovery returns true; when its header write is stored,    *)
(* the stored header has no provisional index and allocates the indices of *)
(* the SpaceTable; when the write fails, the SpaceTable, disable_create_   *)
(* and initialized_ are those of an Initialize whose write was stored.     *)
(***************************************************************************)
\* Initialize ran on hdr, which names a provisional index, and no deletion
\* it attempted failed.
PastRecovery(l, hdr) ==
  /\ ReachedLoop(l, hdr)
  /\ hdr.provisional_index.valid
  /\ \A k \in 1..Len(l.init_calls) :
       l.init_calls[k].fn = "DeleteSpace" => l.init_calls[k].status = kSuccess

\* The storage calls of Initialize before its header write.
BeforeStoreHeader(calls) ==
  SelectSeq(calls, LAMBDA c : c.fn # "StoreHeader")

C25_OpportunisticClearing ==
  [][ PastRecovery(last', header) /\ last'.op \in Queries =>
        /\ last'.init = "ok"
        /\ HasCall(last'.init_calls, "StoreHeader", kSuccess)
           => /\ header'.present
              /\ header'.provisional_index = NoIndex
              /\ header'.allocated_indices = TableIndices(spaces_')
              /\ header'.disable_create = header.disable_create
        /\ ~HasCall(last'.init_calls, "StoreHeader", kSuccess)
           => /\ header' = header
              /\ \E stored \in InitializeOutcomes(World) :
                   /\ HasCall(stored.calls, "StoreHeader", kSuccess)
                   /\ BeforeStoreHeader(stored.calls) =
                        BeforeStoreHeader(last'.init_calls)
                   /\ stored.w.spaces = spaces_'
                   /\ stored.w.disable_create = disable_create_'
                   /\ stored.w.initialized = initialized_' ]_vars

\* Initialize returned true although its clearing header write failed.
C25_Witness ==
  /\ InitializeCompleted
  /\ \E k \in 1..Len(last.init_calls) : last.init_calls[k].fn = "LoadSpace"
  /\ HasCall(last.init_calls, "StoreHeader", kStorageError)
  /\ header.provisional_index.valid


(***************************************************************************)
(* C26: when the stored header allocates more than kMaxSpaces indices, the *)
(* Initialize of every request fails: the request returns INTERNAL_ERROR,  *)
(* the SpaceTable gets no entry, the manager stays uninitialized, and      *)
(* nothing in storage is written or deleted.                               *)
(***************************************************************************)
\* Initialize ran on hdr, which it loaded and whose version it accepts, and
\* hdr allocates more indices than the table holds.
ExcessSpaces(l, hdr) ==
  /\ l.init # "skipped"
  /\ HasCall(l.init_calls, "LoadHeader", kSuccess)
  /\ hdr.version <= kVersion
  /\ Len(hdr.allocated_indices) > kMaxSpaces

Reads == {"LoadHeader", "LoadSpace"}

C26_ExcessSpacesRefusal ==
  [][ ExcessSpaces(last', header) =>
        /\ last'.init = "failed"
        /\ last'.result = NV_RESULT_INTERNAL_ERROR
        /\ spaces_' = spaces_
        /\ initialized_' = FALSE
        /\ header' = header
        /\ space_blobs' = space_blobs
        /\ \A k \in 1..Len(last'.init_calls) : last'.init_calls[k].fn \in Reads
        /\ last'.calls = <<>> ]_vars

\* CreateSpace was refused over a header with one index too many.
C26_Witness ==
  /\ last.op = "CreateSpace"
  /\ ExcessSpaces(last, header)
  /\ last.result = NV_RESULT_INTERNAL_ERROR
  /\ spaces_ = <<>>


(***************************************************************************)
(* C27: Initialize leaves initialized_ true whenever it returns true, and  *)
(* on a manager whose initialized_ is true it returns true at once, with   *)
(* no storage call and no change to the manager, whatever the storage      *)
(* would answer; no request turns initialized_ back to false.              *)
(***************************************************************************)
\* A request handled to its end by the manager that received it.
Handled(l) == l.op # "Reboot" /\ ~l.crashed

C27_InitializeIdempotent ==
  [][ /\ last'.init = "ok" /\ Handled(last') => initialized_'
      /\ initialized_ /\ Handled(last') =>
           /\ initialized_'
           /\ last'.init = "skipped"
           /\ last'.init_calls = <<>>
           /\ \A f \in InitFaults :
                Initialize(World, f) =
                  [ok |-> TRUE, w |-> World, ran |-> FALSE, calls |-> <<>>]
           /\ last'.op \in Queries =>
                /\ spaces_' = spaces_
                /\ disable_create_' = disable_create_ ]_vars

\* A query on an initialized manager with a space in its table.
C27_Witness ==
  /\ last.op \in Queries
  /\ last.init = "skipped"
  /\ initialized_
  /\ spaces_ # <<>>


(***************************************************************************)
(* C28: the provisional index of the stored header changes only with a     *)
(* header write.  After a request in which CreateSpace(i) got its header   *)
(* stored it is i, and so it is after a CreateSpace(i) that returns        *)
(* SUCCESS; after a request whose last stored header write was made by     *)
(* DisableCreate or by Initialize there is none.  So the header names at   *)
(* most one provisional index, that of the most recent CreateSpace whose   *)
(* header write succeeded, until the next header write clears it.          *)
(***************************************************************************)
StoredHeader(calls) == HasCall(calls, "StoreHeader", kSuccess)

C28_ProvisionalIndexOnDisk ==
  [][ /\ last'.op = "CreateSpace" /\ last'.result = NV_RESULT_SUCCESS
           => StoredHeader(last'.calls)
      /\ last'.op = "CreateSpace" /\ StoredHeader(last'.calls)
           => header'.provisional_index = SomeIndex(last'.request.index)
      /\ last'.op = "DisableCreate" /\ StoredHeader(last'.calls)
           => header'.provisional_index = NoIndex
      /\ StoredHeader(last'.init_calls) /\ ~StoredHeader(last'.calls)
           => header'.provisional_index = NoIndex
      /\ ~StoredHeader(last'.init_calls) /\ ~StoredHeader(last'.calls)
           => header' = header ]_vars

\* Initialize has cleared the provisional index that an interrupted
\* CreateSpace left.
C28_Witness ==
  /\ InitializeCompleted
  /\ StoredHeader(last.init_calls)
  /\ CalledFor(last.init_calls, "LoadSpace", 2)
  /\ header.provisional_index = NoIndex


(***************************************************************************)
(* C29: a GetSpaceInfo that returns SUCCESS reports write_locked as the    *)
(* stored kFlagWriteLocked when the space has the control                  *)
(* NV_CONTROL_PERSISTENT_WRITE_LOCK, else as the write_locked of its table *)
(* entry when it has NV_CONTROL_BOOT_WRITE_LOCK, else false; read_locked   *)
(* as the read_locked of its table entry when it has                       *)
(* NV_CONTROL_BOOT_READ_LOCK, else false.  The write_locked and            *)
(* read_locked of every table entry are false.                             *)
(***************************************************************************)
TransientOf(spaces, index) == spaces[FindSpace(spaces, index) + 1]

C29_LockReporting ==
  [][ /\ \A k \in 1..Len(spaces_') :
           ~spaces_'[k].write_locked /\ ~spaces_'[k].read_locked
      /\ last'.op = "GetSpaceInfo" /\ last'.result = NV_RESULT_SUCCESS =>
           LET space == space_blobs'[last'.request.index]
               entry == TransientOf(spaces_', last'.request.index)
           IN /\ last'.response.write_locked =
                   IF NV_CONTROL_PERSISTENT_WRITE_LOCK \in space.controls
                     THEN kFlagWriteLocked \in space.flags
                   ELSE IF NV_CONTROL_BOOT_WRITE_LOCK \in space.controls
                     THEN entry.write_locked
                   ELSE FALSE
              /\ last'.response.read_locked =
                   IF NV_CONTROL_BOOT_READ_LOCK \in space.controls
                     THEN entry.read_locked
                   ELSE FALSE ]_vars

\* GetSpaceInfo has reported a space as locked for writing.
C29_Witness ==
  /\ Succeeded("GetSpaceInfo")
  /\ last.response.write_locked
  /\ ~last.response.read_locked


(***************************************************************************)
(* C30: on a manager that is initialized, GetInfo makes no storage call    *)
(* and GetSpaceInfo makes at most one, a LoadSpace; whatever they return,  *)
(* the SpaceTable, disable_create_, initialized_, the stored header and    *)
(* the stored space blobs are as before.                                   *)
(***************************************************************************)
C30_QueriesReadOnly ==
  [][ initialized_ /\ last'.op \in Queries =>
        /\ last'.init_calls = <<>>
        /\ last'.op = "GetInfo" => last'.calls = <<>>
        /\ last'.op = "GetSpaceInfo" =>
             /\ Len(last'.calls) <= 1
             /\ \A k \in 1..Len(last'.calls) :
                  /\ last'.calls[k].fn = "LoadSpace"
                  /\ last'.calls[k].index = last'.request.index
        /\ spaces_' = spaces_
        /\ disable_create_' = disable_create_
        /\ initialized_' = initialized_
        /\ header' = header
        /\ space_blobs' = space_blobs ]_vars

\* GetSpaceInfo on an initialized manager, its one load failing.
C30_Witness ==
  /\ last.op = "GetSpaceInfo"
  /\ last.init = "skipped"
  /\ last.calls = <<Call("LoadSpace", last.request.index, kStorageError)>>
  /\ initialized_


(***************************************************************************)
(* C31: on an initialized manager disable_create_ is true only if the      *)
(* header in storage has kFlagDisableCreate.                               *)
(* Violated: DisableCreate sets disable_create_ before it writes the       *)
(* header and leaves it set when the write fails.                          *)
(***************************************************************************)
C31_DisableFlagAgreement ==
  initialized_ /\ disable_create_ => header.present /\ header.disable_create


(***************************************************************************)
(* C32: once the header in storage has kFlagDisableCreate, the header in   *)
(* storage after every later request has it, whichever of CreateSpace,     *)
(* DisableCreate and Initialize wrote it and on whichever manager; the     *)
(* manager that handled the request has disable_create_ set.               *)
(***************************************************************************)
Disabled(hdr) == hdr.present /\ hdr.disable_create

C32_DisableFlagNeverCleared ==
  [][ Disabled(header) =>
        /\ Disabled(header')
        /\ Handled(last') /\ last'.init # "failed" => disable_create_' ]_vars

\* Initialize has rewritten a header that has the flag.
C32_Witness ==
  /\ InitializeCompleted
  /\ StoredHeader(last.init_calls)
  /\ Disabled(header)
  /\ disable_create_


(***************************************************************************)
(* C33: over storage in which every space blob is allocated by the stored  *)
(* header, a CreateSpace(i) calls StoreSpace(i) only when storage holds no *)
(* blob for i, and every blob that storage holds is the same after the     *)
(* request.                                                                *)
(***************************************************************************)
C33_CreateNeverClobbers ==
  [][ last'.op = "CreateSpace" /\ HeaderCoversStorage(header, space_blobs) =>
        /\ CalledFor(last'.calls, "StoreSpace", last'.request.index)
             => ~space_blobs[last'.request.index].present
        /\ \A j \in Indices :
             space_blobs[j].present => space_blobs'[j] = space_blobs[j] ]_vars

\* CreateSpace has stored a space next to one that has an authorization
\* value.
C33_Witness ==
  /\ StoredItsSpace(last)
  /\ HeaderCoversStorage(header, space_blobs)
  /\ \E j \in Indices \ {last.request.index} :
       /\ space_blobs[j].present
       /\ space_blobs[j].authorization_value # <<>>

====
